---- MODULE Spec2Model ----
(***************************************************************************)
(* A model of the merge machinery of the SourceControl repository:         *)
(* pkg/merge (merge base, fast-forward, three-way, recursive, octopus and  *)
(* squash mergers, and the manager that selects among them) over a commit  *)
(* store, a branch table and HEAD.                                         *)
(*                                                                         *)
(* A commit digest is the position of the commit object in `store`; the    *)
(* store is append-only and WriteObject is idempotent on equal content,    *)
(* so equal content has equal digest.  A tree digest is the tree itself, a *)
(* function from entry names to blob digests.                              *)
(***************************************************************************)
EXTENDS Integers, Sequences, FiniteSets, TLC

\* ---------------------------------------------------------------- bounds
MaxUser == 3       \* commits created with `commit`
MaxMerges == 1     \* merges that change the repository
MaxTheirs == 2     \* branches given to one merge
MaxBlob == 2       \* blob digests 1..MaxBlob used by `commit`
MaxLines == 3      \* lines of a file given to the conflict writer
MaxWalk == 3       \* commits of a store with missing objects

ZeroHash == 0      \* the empty ObjectHash ("")

Branches == {"master"}
Blobs == 1..MaxBlob
CommitPaths == {"f"}

\* The elements of a sequence.
Range(f) == {f[i] : i \in DOMAIN f}

\* Trees over a set of names: every function from a subset of P to blobs.
TreesOver(P, B) == UNION {[S -> B] : S \in SUBSET P}
CommitTrees == TreesOver(CommitPaths, Blobs)
EmptyTree == <<>>
\* The tree named by the zero digest (a commit whose TreeSHA was never set).
ZeroTree == [p \in {""} |-> ZeroHash]

Modes == {"default", "no-commit", "squash", "ff-only", "no-ff"}
\* StrategyOurs and StrategySubtree are handled as StrategyRecursive is.
Strategies == {"recursive", "octopus"}
Resolutions == {"fail", "ours", "theirs", "manual"}

VARIABLES
    store,    \* the commit objects, by digest
    refs,     \* refs/heads/<branch> -> digest (ZeroHash: no such branch)
    head,     \* HEAD: attached to a branch, or detached at a digest
    merges,   \* merges that changed the repository so far
    index,    \* the staging index: entries (path, stage, blob), in file order
    gitDir,   \* the merge state files of the repository directory: name -> content
    ctx,      \* the caller's cancellation signal has fired (ctx.Done())
    walk,     \* the graph traversal that is running: its frame
    pool,     \* the worker-pool operation that is running
    res       \* the last operation: its arguments and what it returned
vars == <<store, refs, head, merges, index, gitDir, ctx, walk, pool, res>>

\* ------------------------------------------------------------ object store
\* commitMgr.GetCommit succeeds exactly for a digest the store holds.
Stored(st, sha) == sha \in DOMAIN st

\* repo.WriteObject: idempotent on content, otherwise a new object.
WriteObject(st, c) ==
    IF \E i \in DOMAIN st : st[i] = c
    THEN [store |-> st, sha |-> CHOOSE i \in DOMAIN st : st[i] = c]
    ELSE [store |-> Append(st, c), sha |-> Len(st) + 1]

\* ------------------------------------------------------------------- refs
\* branchMgr.CurrentBranch: the branch HEAD is attached to, "" when detached.
CurrentBranch(hd) == hd.branch

\* branchMgr.CurrentCommit: the digest HEAD resolves to (ZeroHash: none yet).
CurrentCommit(rf, hd) == IF hd.branch # "" THEN rf[hd.branch] ELSE hd.sha

\* ------------------------------------------------------------- merge base
RECURSIVE collectAncestors(_, _, _)
RECURSIVE collectParents(_, _, _, _)

\* The loop over c.ParentSHAs of collectAncestors: a parent that cannot be
\* loaded is skipped.
collectParents(st, ps, i, ancestors) ==
    IF i > Len(ps) THEN ancestors
    ELSE collectParents(st, ps, i + 1,
            IF Stored(st, ps[i]) THEN collectAncestors(st, ps[i], ancestors)
            ELSE ancestors)

collectAncestors(st, c, ancestors) ==
    IF c \in ancestors THEN ancestors
    ELSE collectParents(st, st[c].parents, 1, ancestors \cup {c})

\* A walk that follows only the first parent of each commit.
RECURSIVE firstParentAncestors(_, _)
firstParentAncestors(st, c) ==
    {c} \cup IF Len(st[c].parents) > 0 /\ Stored(st, st[c].parents[1])
             THEN firstParentAncestors(st, st[c].parents[1])
             ELSE {}

getAncestors(st, c) == collectAncestors(st, c, {})

\* FindMergeBase ranges over a Go map of the common ancestors and returns
\* the first key the iteration yields: any one of them.  The empty set
\* stands for the error return (a commit that cannot be loaded, or no
\* common ancestor).
FindMergeBase(st, c1, c2) ==
    IF ~Stored(st, c1) \/ ~Stored(st, c2) THEN {}
    ELSE getAncestors(st, c1) \cap getAncestors(st, c2)

\* FindMergeBases wraps the single result of FindMergeBase in a list.
FindMergeBases(st, c1, c2) == {<<m>> : m \in FindMergeBase(st, c1, c2)}

IsAncestor(st, possibleAncestor, c) ==
    IF ~Stored(st, c) THEN [err |-> TRUE, val |-> FALSE]
    ELSE [err |-> FALSE, val |-> possibleAncestor \in getAncestors(st, c)]

CanFastForward(st, from, to) ==
    IF from = to THEN [err |-> FALSE, val |-> TRUE]
    ELSE IsAncestor(st, from, to)

\* ------------------------------------------------------------ tree merge
\* treeToMap lookup: the entry under a name, ZeroHash (nil) when absent.
Entry(t, p) == IF p \in DOMAIN t THEN t[p] ELSE ZeroHash

\* mergeEntry on the digests of the three entries (nil = ZeroHash): the
\* merged entry (nil = omitted) and whether a conflict is reported.
mergeEntry(base, ours, theirs) ==
    LET b == base # ZeroHash
        o == ours # ZeroHash
        t == theirs # ZeroHash
    IN  IF b /\ o /\ t /\ base = ours /\ base = theirs
            THEN [entry |-> ours, conflict |-> FALSE]             \* case 1
        ELSE IF b /\ o /\ t /\ base = theirs /\ base # ours
            THEN [entry |-> ours, conflict |-> FALSE]             \* case 2
        ELSE IF b /\ o /\ t /\ base = ours /\ base # theirs
            THEN [entry |-> theirs, conflict |-> FALSE]           \* case 3
        ELSE IF o /\ t /\ ours = theirs
            THEN [entry |-> ours, conflict |-> FALSE]             \* case 4
        ELSE IF ~b /\ o /\ t
            THEN [entry |-> ours, conflict |-> TRUE]              \* case 5
        ELSE IF b /\ ~o /\ t /\ base = theirs
            THEN [entry |-> ZeroHash, conflict |-> FALSE]         \* case 6
        ELSE IF b /\ o /\ ~t /\ base = ours
            THEN [entry |-> ZeroHash, conflict |-> FALSE]         \* case 7
        ELSE IF ~b /\ o /\ ~t
            THEN [entry |-> ours, conflict |-> FALSE]             \* case 8
        ELSE IF ~b /\ ~o /\ t
            THEN [entry |-> theirs, conflict |-> FALSE]           \* case 9
        ELSE [entry |-> ours, conflict |-> TRUE]          \* all other cases

\* mergeTrees: mergeEntry over the union of the three trees' names.
mergeTrees(base, ours, theirs) ==
    LET allPaths == DOMAIN base \cup DOMAIN ours \cup DOMAIN theirs
        m(p) == mergeEntry(Entry(base, p), Entry(ours, p), Entry(theirs, p))
        kept == {p \in allPaths : m(p).entry # ZeroHash}
    IN  [tree |-> [p \in kept |-> m(p).entry],
         conflicts |-> {p \in allPaths : m(p).conflict}]

\* ------------------------------------------------------------------ index
\* Index paths in their sort order.  Paths are given normalized, as
\* scpath.RelativePath.Normalize leaves them.
IndexPaths == <<"f", "g">>
PathRank(p) == CHOOSE i \in DOMAIN IndexPaths : IndexPaths[i] = p

\* The order of the index file: by path, then by stage.
EntryLess(x, y) ==
    \/ PathRank(x.path) < PathRank(y.path)
    \/ x.path = y.path /\ x.stage < y.stage

RECURSIVE InsertEntry(_, _)
InsertEntry(e, entries) ==
    IF entries = <<>> THEN <<e>>
    ELSE IF EntryLess(e, Head(entries)) THEN <<e>> \o entries
    ELSE <<Head(entries)>> \o InsertEntry(e, Tail(entries))

\* Index.sort
RECURSIVE IndexSort(_)
IndexSort(entries) ==
    IF entries = <<>> THEN <<>>
    ELSE InsertEntry(Head(entries), IndexSort(Tail(entries)))

\* The entries of idx that are not entries of path p at a stage in S.
WithoutEntries(idx, p, S) ==
    LET keep(e) == ~(e.path = p /\ e.stage \in S)
    IN  SelectSeq(idx, keep)

\* Index.Remove: drops the normal (stage-0) entry of the path.
IndexRemove(idx, p) == WithoutEntries(idx, p, {0})

\* Index.Add: replaces the stage-0 entry of the entry's path.
IndexAdd(idx, e) == IndexSort(Append(IndexRemove(idx, e.path), e))

\* Index.RemoveConflict: filters out the entries of the path at stages 1-3.
RemoveConflict(idx, p) == WithoutEntries(idx, p, 1..3)

\* An AddConflict that appends the stages without first removing the
\* conflict entries the path already has.
AddConflictKeepingOld(idx, p, base, ours, theirs) ==
    LET stage(n, h) == IF h # ZeroHash
                       THEN <<[path |-> p, stage |-> n, hash |-> h]>> ELSE <<>>
    IN  IndexSort(IndexRemove(idx, p)
                      \o stage(1, base) \o stage(2, ours) \o stage(3, theirs))

\* Index.AddConflict
AddConflict(idx, p, base, ours, theirs) ==
    LET stage(n, h) == IF h # ZeroHash
                       THEN <<[path |-> p, stage |-> n, hash |-> h]>> ELSE <<>>
    IN  IndexSort(RemoveConflict(IndexRemove(idx, p), p)
                      \o stage(1, base) \o stage(2, ours) \o stage(3, theirs))

\* The blob a scan of idx leaves in the field of stage n of path p: the one
\* of the last such entry, ZeroHash if there is none.
StageHash(idx, p, n) ==
    LET at == {i \in DOMAIN idx : idx[i].path = p /\ idx[i].stage = n}
    IN  IF at = {} THEN ZeroHash
        ELSE idx[CHOOSE i \in at : \A j \in at : j <= i].hash

\* Index.GetConflicts: a ConflictEntry for every path with an entry at a
\* stage other than 0.
GetConflicts(idx) ==
    [p \in {idx[i].path : i \in {j \in DOMAIN idx : idx[j].stage # 0}} |->
        [Base |-> StageHash(idx, p, 1), Ours |-> StageHash(idx, p, 2),
         Theirs |-> StageHash(idx, p, 3)]]

\* A check that looks at every entry of the path, whatever its stage.
IsConflictedAnyStage(idx, p) == \E i \in DOMAIN idx : idx[i].path = p

\* Index.IsConflicted
IsConflicted(idx, p) ==
    \E i \in DOMAIN idx : idx[i].path = p /\ idx[i].stage > 0

\* Index.ResolveConflict
ResolveConflict(idx, p, resolvedHash) ==
    IF ~IsConflicted(idx, p) THEN [err |-> TRUE, index |-> idx]
    ELSE [err |-> FALSE,
          index |-> IndexAdd(RemoveConflict(idx, p),
                             [path |-> p, stage |-> 0, hash |-> resolvedHash])]

\* The index after a tree is read into it: a stage-0 entry per blob.
RECURSIVE TreeEntries(_, _)
TreeEntries(t, i) ==
    IF i > Len(IndexPaths) THEN <<>>
    ELSE (IF IndexPaths[i] \in DOMAIN t
          THEN <<[path |-> IndexPaths[i], stage |-> 0, hash |-> t[IndexPaths[i]]]>>
          ELSE <<>>) \o TreeEntries(t, i + 1)

TreeIndex(t) == TreeEntries(t, 1)

\* ---------------------------------------------------------------- mergers
\* A repository value: the commit store, the branch table and HEAD.
Repo(st, rf, hd) == [store |-> st, refs |-> rf, head |-> hd]

\* What a merger returns: err = the Go error return; otherwise the fields
\* of MergeResult.  `base` is the merge base the tree merge used and `repo`
\* the repository the call leaves behind.
Outcome(err, success, ff, sha, conflicts, base, R) ==
    [err |-> err, success |-> success, ff |-> ff, commitSHA |-> sha,
     conflicts |-> conflicts, base |-> base, repo |-> R]

Failed(R) == Outcome(TRUE, FALSE, FALSE, ZeroHash, {}, ZeroHash, R)

\* A ref update that knows only branches: a detached HEAD stays put.
updateBranchOnly(rf, hd, targetSHA) ==
    [refs |-> [b \in DOMAIN rf |-> IF b = CurrentBranch(hd) THEN targetSHA ELSE rf[b]],
     head |-> hd]

\* FastForwardMerger.updateHead: the current branch, or HEAD when detached.
updateHead(rf, hd, targetSHA) ==
    IF CurrentBranch(hd) # ""
    THEN [refs |-> [rf EXCEPT ![CurrentBranch(hd)] = targetSHA], head |-> hd]
    ELSE [refs |-> rf, head |-> [hd EXCEPT !.sha = targetSHA]]

\* FastForwardMerger.CanMerge
FastForwardCanMerge(R, our, theirs) ==
    /\ Len(theirs) = 1
    /\ LET c == CanFastForward(R.store, our, theirs[1]) IN ~c.err /\ c.val

\* FastForwardMerger.Merge.  The working-directory update that follows the
\* ref update may fail, after the ref has moved; it does fail when the
\* target's tree cannot be read.
FastForwardMerge(R, our, theirs) ==
    IF Len(theirs) # 1 THEN {Failed(R)}
    ELSE LET their == theirs[1]
             canFF == CanFastForward(R.store, our, their)
         IN  IF canFF.err \/ ~canFF.val THEN {Failed(R)}
             ELSE IF our = their
                 THEN {Outcome(FALSE, TRUE, TRUE, their, {}, ZeroHash, R)}
             ELSE LET u == updateHead(R.refs, R.head, their)
                      R2 == Repo(R.store, u.refs, u.head)
                  IN  {Failed(R2)} \cup
                      (IF R.store[their].tree = ZeroTree THEN {}
                       ELSE {Outcome(FALSE, TRUE, TRUE, their, {}, ZeroHash, R2)})

\* ThreeWayMerger.createMergeCommit: writes the commit; the branch
\* reference is not updated (a TODO in the source).
createMergeCommit(st, our, their, mergedTree) ==
    WriteObject(st, [tree |-> mergedTree, parents |-> <<our, their>>,
                     msg |-> <<"merge", their>>])

\* ThreeWayMerger.Merge
ThreeWayMerge(R, our, theirs, base, cfg) ==
    IF ~(Len(theirs) = 1 /\ base # ZeroHash) THEN Failed(R)
    ELSE LET st == R.store
             their == theirs[1]
         IN  IF ZeroTree \in {st[our].tree, st[their].tree, st[base].tree}
             THEN Failed(R)                      \* ReadTreeObject fails
             ELSE LET m == mergeTrees(st[base].tree, st[our].tree, st[their].tree)
                      has == m.conflicts # {}
                  IN  IF has /\ cfg.ConflictResolution = "fail"
                      THEN Outcome(FALSE, FALSE, FALSE, ZeroHash, m.conflicts, base, R)
                      ELSE IF cfg.Mode = "no-commit"
                      THEN Outcome(FALSE, ~has, FALSE, ZeroHash, m.conflicts, base, R)
                      ELSE LET w == createMergeCommit(st, our, their, m.tree)
                           IN  Outcome(FALSE, ~has, FALSE, w.sha, m.conflicts, base,
                                       Repo(w.store, R.refs, R.head))

\* RecursiveMerger.Merge: the context's base commit if it has one, else the
\* first (only) merge base FindMergeBases returns.
RecursiveMerge(R, our, theirs, base, cfg) ==
    IF Len(theirs) # 1 THEN {Failed(R)}
    ELSE LET mergeBases == FindMergeBases(R.store, our, theirs[1])
         IN  IF mergeBases = {}
             THEN IF ~cfg.AllowUnrelatedHistories THEN {Failed(R)}
                  ELSE {ThreeWayMerge(R, our, theirs, base, cfg)}
             ELSE IF base # ZeroHash THEN {ThreeWayMerge(R, our, theirs, base, cfg)}
             ELSE {ThreeWayMerge(R, our, theirs, mb[1], cfg) : mb \in mergeBases}

\* SquashMerger.Merge: the recursive merge in no-commit mode, then a commit
\* with our commit as only parent and TreeSHA = theirCommit.TreeSHA.
SquashMerge(R, our, theirs, base, cfg) ==
    IF ~(Len(theirs) = 1 /\ cfg.Mode = "squash") THEN {Failed(R)}
    ELSE LET squashConfig == [cfg EXCEPT !.Mode = "no-commit"]
             finish(r) ==
                IF r.err THEN Failed(R)
                ELSE IF ~r.success THEN r
                ELSE LET w == WriteObject(r.repo.store,
                                [tree |-> r.repo.store[theirs[1]].tree,
                                 parents |-> <<our>>,
                                 msg |-> <<"squash", theirs[1]>>])
                     IN  Outcome(FALSE, TRUE, FALSE, w.sha, {}, r.base,
                                 Repo(w.store, R.refs, R.head))
         IN  {finish(r) : r \in RecursiveMerge(R, our, theirs, base, squashConfig)}

\* The loop of OctopusMerger.Merge from its i-th branch on (i = 1 is the
\* source's i == 0), then the octopus commit with all parents.
RECURSIVE OctopusLoop(_, _, _, _, _, _, _)
OctopusLoop(R, our, theirs, cfg, i, currentCommit, finalTree) ==
    IF i > Len(theirs)
    THEN LET w == WriteObject(R.store,
                    [tree |-> finalTree, parents |-> <<our>> \o theirs,
                     msg |-> <<"octopus", Len(theirs)>>])
         IN  {Outcome(FALSE, TRUE, FALSE, w.sha, {}, ZeroHash,
                      Repo(w.store, R.refs, R.head))}
    ELSE LET step(r) ==
                IF r.err THEN {Failed(R)}
                ELSE IF ~r.success \/ r.conflicts # {}
                THEN {Outcome(FALSE, FALSE, FALSE, ZeroHash, r.conflicts,
                              ZeroHash, r.repo)}
                ELSE IF i = 1 /\ r.commitSHA # ZeroHash
                THEN OctopusLoop(r.repo, our, theirs, cfg, i + 1, r.commitSHA,
                                 r.repo.store[r.commitSHA].tree)
                ELSE OctopusLoop(r.repo, our, theirs, cfg, i + 1,
                                 currentCommit, finalTree)
         IN  UNION {step(r) : r \in RecursiveMerge(R, currentCommit,
                                        <<theirs[i]>>, ZeroHash, cfg)}

\* OctopusMerger.Merge
OctopusMerge(R, our, theirs, cfg) ==
    IF Len(theirs) < 2 \/ cfg.ConflictResolution = "manual" THEN {Failed(R)}
    ELSE OctopusLoop(R, our, theirs, cfg, 1, our, ZeroTree)

\* Manager.selectNonFastForwardStrategy followed by the CanMerge check and
\* the Merge call of executeMerge.
NonFastForwardMerge(R, our, theirs, base, cfg) ==
    IF cfg.Strategy = "octopus" THEN OctopusMerge(R, our, theirs, cfg)
    ELSE RecursiveMerge(R, our, theirs, base, cfg)

\* A strategy selection that treats fast-forward-only as the default mode.
executeMergeFallingBack(R, our, theirs, base, cfg) ==
    IF cfg.Mode = "squash" THEN SquashMerge(R, our, theirs, base, cfg)
    ELSE IF Len(theirs) > 1
        THEN IF cfg.Strategy = "octopus" THEN OctopusMerge(R, our, theirs, cfg)
             ELSE {Failed(R)}
    ELSE IF cfg.Mode = "no-ff" THEN NonFastForwardMerge(R, our, theirs, base, cfg)
    ELSE IF FastForwardCanMerge(R, our, theirs)
        THEN FastForwardMerge(R, our, theirs)
        ELSE NonFastForwardMerge(R, our, theirs, base, cfg)

\* Manager.executeMerge
executeMerge(R, our, theirs, base, cfg) ==
    IF cfg.Mode = "squash" THEN SquashMerge(R, our, theirs, base, cfg)
    ELSE IF Len(theirs) > 1
        THEN IF cfg.Strategy = "octopus" THEN OctopusMerge(R, our, theirs, cfg)
             ELSE {Failed(R)}
    ELSE IF cfg.Mode = "ff-only"
        THEN IF FastForwardCanMerge(R, our, theirs)
             THEN FastForwardMerge(R, our, theirs)
             ELSE {Failed(R)}
    ELSE IF cfg.Mode = "no-ff" THEN NonFastForwardMerge(R, our, theirs, base, cfg)
    ELSE IF FastForwardCanMerge(R, our, theirs)
        THEN FastForwardMerge(R, our, theirs)
        ELSE NonFastForwardMerge(R, our, theirs, base, cfg)

\* Manager.resolveBranchToSHA: a branch name first, else a commit SHA.  An
\* argument is [name, sha]: a name ("" for none) or a digest.
resolveBranchToSHA(rf, a) ==
    IF a.name # "" THEN rf[a.name] ELSE a.sha

\* Manager.resolveBranches: the digests, or <<>> when one cannot be loaded.
resolveBranches(R, branches) ==
    LET shas == [i \in DOMAIN branches |-> resolveBranchToSHA(R.refs, branches[i])]
    IN  IF \A i \in DOMAIN shas : Stored(R.store, shas[i]) THEN shas ELSE <<>>

\* Manager.Merge
ManagerMerge(R, branches, cfg) ==
    LET our == CurrentCommit(R.refs, R.head)
        theirs == resolveBranches(R, branches)
    IN  IF Len(branches) = 0 \/ ~Stored(R.store, our) \/ theirs = <<>>
        THEN {Failed(R)}
        ELSE LET bases == FindMergeBase(R.store, our, theirs[1])
             IN  IF bases = {}
                 THEN IF ~cfg.AllowUnrelatedHistories THEN {Failed(R)}
                      ELSE executeMerge(R, our, theirs, ZeroHash, cfg)
                 ELSE UNION {executeMerge(R, our, theirs, b, cfg) : b \in bases}

\* ------------------------------------------------------------------ inputs
\* DefaultConfig()
DefaultConfig ==
    [Strategy |-> "recursive", Mode |-> "default", ConflictResolution |-> "fail",
     AllowUnrelatedHistories |-> FALSE]

\* Every commit descends from the first one, so a merge base always exists
\* and AllowUnrelatedHistories is never consulted: it keeps its default.
Configs ==
    [Strategy : Strategies, Mode : Modes, ConflictResolution : Resolutions,
     AllowUnrelatedHistories : {FALSE}]

\* Digests a caller may pass: every stored commit and one the store lacks.
Digests == 1..(Len(store) + 1)

\* Arguments of merge: branch names and commit SHAs.
BranchArgs ==
    {[name |-> b, sha |-> ZeroHash] : b \in Branches}
        \cup {[name |-> "", sha |-> d] : d \in Digests}

BranchLists == UNION {[1..n -> BranchArgs] : n \in 1..MaxTheirs}

UserCommits == {i \in DOMAIN store : store[i].msg[1] = "user"}

\* ----------------------------------------------------------------- actions
\* No command is running: the last one has returned and its result has
\* been read.  Every command starts from here.
Idle == [op |-> "none"]

\* No traversal is running.
NoWalk == [op |-> "none"]

\* No worker-pool operation is running.
NoPool == [op |-> "none"]

Init ==
    /\ store = <<>>
    /\ refs = [b \in Branches |-> ZeroHash]
    /\ head = [branch |-> "master", sha |-> ZeroHash]
    /\ merges = 0
    /\ index = <<>>
    /\ gitDir = <<>>
    /\ ctx = FALSE
    /\ walk = NoWalk
    /\ pool = NoPool
    /\ res = Idle

\* commit: a new commit on top of the current one; the branch HEAD is
\* attached to (or the detached HEAD) moves to it.  Nothing to commit when
\* the tree is the parent's.  The message and time of a commit make it a
\* new object: they are the ordinal in msg.
Commit(t) ==
    LET parent == CurrentCommit(refs, head)
        c == [tree |-> t,
              parents |-> IF parent = ZeroHash THEN <<>> ELSE <<parent>>,
              msg |-> <<"user", Cardinality(UserCommits) + 1>>]
        w == WriteObject(store, c)
    IN  /\ res = Idle
        /\ Cardinality(UserCommits) < MaxUser
        /\ IF parent = ZeroHash THEN t # EmptyTree ELSE t # store[parent].tree
        /\ store' = w.store
        /\ IF head.branch # ""
           THEN refs' = [refs EXCEPT ![head.branch] = w.sha] /\ head' = head
           ELSE refs' = refs /\ head' = [head EXCEPT !.sha = w.sha]
        /\ index' = TreeIndex(t)
        /\ res' = Idle
        /\ UNCHANGED <<merges, gitDir, ctx, walk, pool>>

\* checkout <branch>
Checkout(b) ==
    /\ res = Idle
    /\ refs[b] # ZeroHash
    /\ store[refs[b]].tree # ZeroTree
    /\ head # [branch |-> b, sha |-> ZeroHash]
    /\ head' = [branch |-> b, sha |-> ZeroHash]
    /\ index' = TreeIndex(store[refs[b]].tree)
    /\ res' = Idle
    /\ UNCHANGED <<store, refs, merges, gitDir, ctx, walk, pool>>

\* checkout <commit>: a detached HEAD
CheckoutDetached(c) ==
    /\ res = Idle
    /\ Stored(store, c)
    /\ store[c].tree # ZeroTree
    /\ head # [branch |-> "", sha |-> c]
    /\ head' = [branch |-> "", sha |-> c]
    /\ index' = TreeIndex(store[c].tree)
    /\ res' = Idle
    /\ UNCHANGED <<store, refs, merges, gitDir, ctx, walk, pool>>

\* MergeBaseCalculator.FindMergeBase(a, b)
DoFindMergeBase(a, b) ==
    LET bases == FindMergeBase(store, a, b)
    IN  /\ res = Idle
        /\ \/ /\ bases = {}
              /\ res' = [op |-> "FindMergeBase", a |-> a, b |-> b,
                         err |-> TRUE, bases |-> <<>>]
           \/ \E m \in bases :
                 res' = [op |-> "FindMergeBase", a |-> a, b |-> b,
                         err |-> FALSE, bases |-> <<m>>]
        /\ UNCHANGED <<store, refs, head, merges, index, gitDir, ctx, walk, pool>>

\* MergeBaseCalculator.FindMergeBases(a, b)
DoFindMergeBases(a, b) ==
    LET bases == FindMergeBases(store, a, b)
    IN  /\ res = Idle
        /\ \/ /\ bases = {}
              /\ res' = [op |-> "FindMergeBases", a |-> a, b |-> b,
                         err |-> TRUE, bases |-> <<>>]
           \/ \E ms \in bases :
                 res' = [op |-> "FindMergeBases", a |-> a, b |-> b,
                         err |-> FALSE, bases |-> ms]
        /\ UNCHANGED <<store, refs, head, merges, index, gitDir, ctx, walk, pool>>

\* MergeBaseCalculator.IsAncestor(a, b)
DoIsAncestor(a, b) ==
    LET r == IsAncestor(store, a, b)
    IN  /\ res = Idle
        /\ res' = [op |-> "IsAncestor", a |-> a, b |-> b,
                   err |-> r.err, val |-> r.val]
        /\ UNCHANGED <<store, refs, head, merges, index, gitDir, ctx, walk, pool>>

\* MergeBaseCalculator.CanFastForward(a, b)
DoCanFastForward(a, b) ==
    LET r == CanFastForward(store, a, b)
    IN  /\ res = Idle
        /\ res' = [op |-> "CanFastForward", a |-> a, b |-> b,
                   err |-> r.err, val |-> r.val]
        /\ UNCHANGED <<store, refs, head, merges, index, gitDir, ctx, walk, pool>>

\* merge <branch>...: Manager.Merge.  res keeps what the call saw (HEAD's
\* commit, the merged commits, the size of the store) beside its result.
\* Only a fast-forward reads the target tree into the index (with the
\* working directory); the other mergers leave the index as it is
\* (ThreeWayMerger.updateIndex writes nothing).
Merge(branches, cfg) ==
    /\ res = Idle
    /\ merges < MaxMerges
    /\ \E o \in ManagerMerge(Repo(store, refs, head), branches, cfg) :
        /\ store' = o.repo.store
        /\ refs' = o.repo.refs
        /\ head' = o.repo.head
        /\ merges' = IF o.repo = Repo(store, refs, head) THEN merges ELSE merges + 1
        /\ index' = IF ~o.err /\ o.ff /\ o.commitSHA # CurrentCommit(refs, head)
                     THEN TreeIndex(store[o.commitSHA].tree)
                     ELSE index
        /\ res' = [op |-> "Merge", cfg |-> cfg,
                   our |-> CurrentCommit(refs, head),
                   theirs |-> resolveBranches(Repo(store, refs, head), branches),
                   storeLen |-> Len(store),
                   err |-> o.err, success |-> o.success, ff |-> o.ff,
                   commitSHA |-> o.commitSHA, conflicts |-> o.conflicts,
                   base |-> o.base,
                   before |-> [refs |-> refs, head |-> head, index |-> index]]
        /\ UNCHANGED <<gitDir, ctx, walk, pool>>

\* The files of an in-progress merge, in the repository directory.
MergeStateFiles == {"MERGE_HEAD", "MERGE_MSG", "ORIG_HEAD", "MERGE_MODE"}

\* MergeState.InProgress: MERGE_HEAD exists.
InProgress(dir) == "MERGE_HEAD" \in DOMAIN dir

\* os.WriteFile: the file is created or replaced.
WriteFile(dir, name, data) ==
    [f \in DOMAIN dir \cup {name} |-> IF f = name THEN data ELSE dir[f]]

\* MergeState.SaveState: writes MERGE_HEAD and MERGE_MSG (the ORIG_HEAD
\* part is commented out).  No command calls it.
SaveState(dir, mergeHead, mergeMsg) ==
    WriteFile(WriteFile(dir, "MERGE_HEAD", mergeHead), "MERGE_MSG", mergeMsg)

\* MergeState.SaveMergeMode.  No command calls it.
SaveMergeMode(dir, mode) == WriteFile(dir, "MERGE_MODE", mode)

\* MergeState.ClearState
ClearState(dir) == [f \in DOMAIN dir \ MergeStateFiles |-> dir[f]]

\* The repository as a command finds it.
Snapshot ==
    [store |-> store, refs |-> refs, head |-> head, index |-> index,
     gitDir |-> gitDir]

\* merge --abort: Manager.AbortMerge (restoring the index and the working
\* directory is a TODO)
AbortMerge ==
    /\ res = Idle
    /\ IF ~InProgress(gitDir)
       THEN /\ gitDir' = gitDir
            /\ res' = [op |-> "AbortMerge", err |-> TRUE, before |-> Snapshot]
       ELSE /\ gitDir' = ClearState(gitDir)
            /\ res' = [op |-> "AbortMerge", err |-> FALSE, before |-> Snapshot]
    /\ UNCHANGED <<store, refs, head, merges, index, ctx, walk, pool>>

\* merge --continue: Manager.ContinueMerge (the merge commit is a TODO)
ContinueMerge ==
    /\ res = Idle
    /\ IF ~InProgress(gitDir) \/ "MERGE_MSG" \notin DOMAIN gitDir
          \/ CurrentCommit(refs, head) = ZeroHash
       THEN /\ gitDir' = gitDir
            /\ res' = [op |-> "ContinueMerge", err |-> TRUE, before |-> Snapshot]
       ELSE /\ gitDir' = ClearState(gitDir)
            /\ res' = [op |-> "ContinueMerge", err |-> FALSE, before |-> Snapshot]
    /\ UNCHANGED <<store, refs, head, merges, index, ctx, walk, pool>>

\* The command returns to the prompt.
Return ==
    /\ res # Idle
    /\ res' = Idle
    /\ ctx' = FALSE       \* the next command has a context of its own
    /\ UNCHANGED <<store, refs, head, merges, index, gitDir, walk, pool>>

\* The repository under commit, branch, checkout and merge.
Next ==
    \/ \E t \in CommitTrees : Commit(t)
    \/ \E b \in Branches : Checkout(b)
    \/ \E c \in Digests : CheckoutDetached(c)
    \/ \E branches \in BranchLists, cfg \in Configs : Merge(branches, cfg)
    \/ AbortMerge
    \/ ContinueMerge
    \/ Return

Spec == Init /\ [][Next]_vars

\* The commit graph (commit, detached checkout, merges of the default and
\* the octopus configuration) under the queries of MergeBaseCalculator.
QueryConfigs == {DefaultConfig, [DefaultConfig EXCEPT !.Strategy = "octopus"]}

QueryTrees == CommitTrees \ {EmptyTree}

QueryNext ==
    \/ \E t \in QueryTrees : Commit(t)
    \/ \E c \in Digests : CheckoutDetached(c)
    \/ \E branches \in BranchLists, cfg \in QueryConfigs : Merge(branches, cfg)
    \/ \E a, b \in Digests : DoFindMergeBase(a, b)
    \/ \E a, b \in Digests : DoFindMergeBases(a, b)
    \/ \E a, b \in Digests : DoIsAncestor(a, b)
    \/ \E a, b \in Digests : DoCanFastForward(a, b)
    \/ Return

QuerySpec == Init /\ [][QueryNext]_vars

\* ThreeWayMerger.mergeTrees(base, ours, theirs) on its own
DoMergeTrees(base, ours, theirs) ==
    LET m == mergeTrees(base, ours, theirs)
    IN  /\ res = Idle
        /\ res' = [op |-> "mergeTrees", base |-> base, ours |-> ours,
                   theirs |-> theirs, tree |-> m.tree, conflicts |-> m.conflicts]
        /\ UNCHANGED <<store, refs, head, merges, index, gitDir, ctx, walk, pool>>

\* The tree merge over every three trees of up to two names; one blob more
\* than `commit` uses, so that base, ours and theirs can all differ.
TreePaths == {"f", "g"}
TreeBlobs == 1..(MaxBlob + 1)
MergeTreeInputs == TreesOver(TreePaths, TreeBlobs)

TreeNext ==
    \/ \E base, ours, theirs \in MergeTreeInputs : DoMergeTrees(base, ours, theirs)
    \/ Return

TreeSpec == Init /\ [][TreeNext]_vars

\* ------------------------------------------------------------------ claims
\* The ancestor closure of a commit, as the least set that holds the commit
\* and the stored parents of its members.
RECURSIVE Closure(_, _)
Closure(st, S) ==
    LET N == S \cup {p \in DOMAIN st :
                    \E c \in S : \E i \in DOMAIN st[c].parents : st[c].parents[i] = p}
    IN  IF N = S THEN S ELSE Closure(st, N)

AncestorClosure(st, c) == Closure(st, {c})

\* c1 and c2 each have the single parent c0, and m has parents c1 and c2.
Diamond(c0, c1, c2, m) ==
    /\ c1 # c2
    /\ store[c1].parents = <<c0>>
    /\ store[c2].parents = <<c0>>
    /\ store[m].parents = <<c1, c2>>

\* C1: on a diamond history (C1 and C2 have the single parent C0, M has
\* parents C1 and C2) FindMergeBase(C1, C2) returns C0 and
\* FindMergeBase(M, C1) returns C1.
C1_DiamondMergeBase ==
    res.op = "FindMergeBase" =>
        \A c0, c1, c2, m \in DOMAIN store :
            Diamond(c0, c1, c2, m) =>
                /\ (res.a = c1 /\ res.b = c2) => (~res.err /\ res.bases = <<c0>>)
                /\ (res.a = m /\ res.b = c1) => (~res.err /\ res.bases = <<c1>>)

\* C2: every commit m that FindMergeBase or FindMergeBases returns for
\* (a, b) is an ancestor of a and of b, and no proper descendant of m is an
\* ancestor of both a and b.
C2_MergeBaseIsLowest ==
    (res.op \in {"FindMergeBase", "FindMergeBases"} /\ ~res.err) =>
        \A i \in DOMAIN res.bases :
            LET m == res.bases[i]
                common == AncestorClosure(store, res.a) \cap AncestorClosure(store, res.b)
            IN  /\ m \in common
                /\ ~\E d \in common : d # m /\ m \in AncestorClosure(store, d)

\* C3: IsAncestor(a, b) returns true if and only if a is in the ancestor
\* closure of b (b itself or a commit reachable from b through parent
\* links); IsAncestor(a, a) is true for every stored commit a.
C3_IsAncestorIsClosure ==
    res.op = "IsAncestor" =>
        /\ ~res.err => (res.val <=> res.a \in AncestorClosure(store, res.b))
        /\ (res.a = res.b /\ Stored(store, res.a)) => (~res.err /\ res.val)

\* C3 happens: IsAncestor answered true for a commit reached only through
\* the second parent of a merge commit.
C3_Witness ==
    /\ res.op = "IsAncestor"
    /\ ~res.err
    /\ res.val
    /\ Len(store[res.b].parents) = 2
    /\ res.a = store[res.b].parents[2]
    /\ res.a \notin AncestorClosure(store, store[res.b].parents[1])

\* C4: CanFastForward(a, b) gives the same outcome as IsAncestor(a, b): the
\* same boolean, or an error in the same cases.
C4_CanFastForwardIsIsAncestor ==
    res.op = "CanFastForward" =>
        LET r == IsAncestor(store, res.a, res.b)
        IN  /\ res.err = r.err
            /\ ~res.err => res.val = r.val

\* A merge in default mode of a single commit that HEAD's commit is a
\* proper ancestor of.
FastForwardCase ==
    /\ res.op = "Merge"
    /\ res.cfg.Mode = "default"
    /\ Len(res.theirs) = 1
    /\ res.our # res.theirs[1]
    /\ res.our \in AncestorClosure(store, res.theirs[1])

\* C5: when HEAD's commit is a proper ancestor of the single merged commit
\* M and the mode is default, the merge makes the current branch (or the
\* detached HEAD) resolve to M and adds no commit object to the store.
C5_FastForwardMovesHead ==
    FastForwardCase =>
        /\ Len(store) = res.storeLen
        /\ ~res.err => (res.success /\ CurrentCommit(refs, head) = res.theirs[1])

\* C5 happens: a fast-forward merge succeeded on a detached HEAD.
C5_Witness ==
    /\ FastForwardCase
    /\ ~res.err
    /\ res.ff
    /\ head.branch = ""

\* A successful merge that was neither a fast-forward nor a squash.
MergedNoFastForward ==
    /\ res.op = "Merge"
    /\ ~res.err
    /\ res.success
    /\ ~res.ff
    /\ res.cfg.Mode # "squash"

\* C6: every merge commit written by a successful non-fast-forward,
\* non-squash merge has the parents [HEAD commit, merged commit 1, ...,
\* merged commit n] in the order the branches were given.
C6_MergeCommitParents ==
    MergedNoFastForward =>
        \A c \in (res.storeLen + 1)..Len(store) :
            store[c].parents = <<res.our>> \o res.theirs

\* C7: after a successful non-fast-forward merge that creates a merge
\* commit, the current branch (or the detached HEAD) resolves to that
\* merge commit.
C7_MergeCommitIsHead ==
    (MergedNoFastForward /\ res.commitSHA # ZeroHash) =>
        CurrentCommit(refs, head) = res.commitSHA

\* C8: a successful squash merge writes a commit with exactly one parent,
\* the HEAD commit, whose tree is the three-way merge of the merge base's
\* tree, HEAD's tree and the merged commit's tree.
C8_SquashCommit ==
    (res.op = "Merge" /\ res.cfg.Mode = "squash" /\ ~res.err /\ res.success) =>
        /\ Stored(store, res.commitSHA)
        /\ store[res.commitSHA].parents = <<res.our>>
        /\ store[res.commitSHA].tree =
              mergeTrees(store[res.base].tree, store[res.our].tree,
                         store[res.theirs[1]].tree).tree

\* C9: for every tree X and every base tree B the three-way merge with
\* ours = X and theirs = X yields exactly the entries of X and reports no
\* conflict.
C9_MergeOfEqualSides ==
    (res.op = "mergeTrees" /\ res.ours = res.theirs) =>
        (res.tree = res.ours /\ res.conflicts = {})

\* The resolution table of the three-way merge on the blob digests of one
\* path (ZeroHash = absent); "unlisted" where the table has no row.
TableDecision(b, o, t) ==
    LET B == b # ZeroHash
        O == o # ZeroHash
        T == t # ZeroHash
    IN  IF ~B /\ ~O /\ ~T THEN "omit"
        ELSE IF B /\ O /\ T
            THEN IF o = b /\ t = b THEN "keep ours"
                 ELSE IF o = b THEN "take theirs"
                 ELSE IF t = b THEN "keep ours"
                 ELSE IF o = t THEN "keep ours"
                 ELSE "conflict"                          \* modify/modify
        ELSE IF ~B /\ O /\ ~T THEN "keep ours"
        ELSE IF ~B /\ ~O /\ T THEN "take theirs"
        ELSE IF ~B /\ O /\ T
            THEN IF o = t THEN "keep ours" ELSE "conflict"  \* add/add
        ELSE IF B /\ ~O /\ T
            THEN IF t = b THEN "omit" ELSE "conflict"       \* delete/modify
        ELSE IF B /\ O /\ ~T
            THEN IF o = b THEN "omit" ELSE "conflict"       \* modify/delete
        ELSE "unlisted"

\* C10: for every path and every combination of base, ours and theirs
\* blob entries the merge decision (keep ours, take theirs, omit, conflict)
\* is the one the resolution table prescribes, and a conflict is reported
\* only for modify/modify, add/add with ours # theirs, delete/modify and
\* modify/delete.
C10_ResolutionTable ==
    res.op = "mergeTrees" =>
        \A p \in TreePaths :
            LET o == Entry(res.ours, p)
                t == Entry(res.theirs, p)
                d == TableDecision(Entry(res.base, p), o, t)
                merged == Entry(res.tree, p)
                conflict == p \in res.conflicts
            IN  /\ d = "keep ours" => (merged = o /\ ~conflict)
                /\ d = "take theirs" => (merged = t /\ ~conflict)
                /\ d = "omit" => (merged = ZeroHash /\ ~conflict)
                /\ d = "conflict" => conflict
                /\ conflict => d = "conflict"

\* ------------------------------------------------------ directory entries
\* A tree entry may name a directory: its digest is the digest of the
\* subtree object.  Subtrees hold blobs under SubPaths; DirDigest is their
\* (injective) digest, above every blob digest.
SubPaths == {"a", "b"}
SubTrees == TreesOver(SubPaths, Blobs) \ {EmptyTree}
DirDigest(t) == 10 * (MaxBlob + 1) + Entry(t, "a") * (MaxBlob + 1) + Entry(t, "b")
IsDir(d) == \E t \in SubTrees : DirDigest(t) = d
SubTreeOf(d) == CHOOSE t \in SubTrees : DirDigest(t) = d

\* Root trees with one name that is absent, a blob or a directory.
DirTreeInputs == TreesOver({"d"}, Blobs \cup {DirDigest(t) : t \in SubTrees})

\* ThreeWayMerger.mergeTrees on root trees that hold a directory.
DirNext ==
    \/ \E base, ours, theirs \in DirTreeInputs : DoMergeTrees(base, ours, theirs)
    \/ Return

DirSpec == Init /\ [][DirNext]_vars

\* C11: when ours and theirs both hold a directory under the same name with
\* different digests the merge recurses into it: changes to different files
\* inside merge without a conflict (the merged entry is the directory of
\* the merged subtree), and a conflict is never reported on the directory
\* entry itself.
C11_DirectoriesRecurse ==
    LET b == Entry(res.base, "d")
        o == Entry(res.ours, "d")
        t == Entry(res.theirs, "d")
        inner == mergeTrees(IF IsDir(b) THEN SubTreeOf(b) ELSE EmptyTree,
                            SubTreeOf(o), SubTreeOf(t))
    IN  (res.op = "mergeTrees" /\ IsDir(o) /\ IsDir(t) /\ o # t) =>
            /\ "d" \notin res.conflicts
            /\ inner.conflicts = {} =>
                  (res.conflicts = {} /\ Entry(res.tree, "d") = DirDigest(inner.tree))

\* ------------------------------------------------------------ index alone
\* Blob digests an index call may be given; ZeroHash is "no such side".
IndexHashes == {ZeroHash} \cup Blobs

\* Index.Add of a stage-0 entry
DoIndexAdd(p, h) ==
    /\ res = Idle
    /\ index' = IndexAdd(index, [path |-> p, stage |-> 0, hash |-> h])
    /\ res' = [op |-> "Add", path |-> p, err |-> FALSE]
    /\ UNCHANGED <<store, refs, head, merges, gitDir, ctx, walk, pool>>

\* Index.Remove
DoIndexRemove(p) ==
    /\ res = Idle
    /\ index' = IndexRemove(index, p)
    /\ res' = [op |-> "Remove", path |-> p, err |-> FALSE]
    /\ UNCHANGED <<store, refs, head, merges, gitDir, ctx, walk, pool>>

\* Index.AddConflict(path, base, ours, theirs)
DoAddConflict(p, base, ours, theirs) ==
    /\ res = Idle
    /\ index' = AddConflict(index, p, base, ours, theirs)
    /\ res' = [op |-> "AddConflict", path |-> p, err |-> FALSE]
    /\ UNCHANGED <<store, refs, head, merges, gitDir, ctx, walk, pool>>

\* Index.RemoveConflict(path)
DoRemoveConflict(p) ==
    /\ res = Idle
    /\ index' = RemoveConflict(index, p)
    /\ res' = [op |-> "RemoveConflict", path |-> p, err |-> FALSE]
    /\ UNCHANGED <<store, refs, head, merges, gitDir, ctx, walk, pool>>

\* Index.ResolveConflict(path, resolvedHash); res keeps the index it found.
DoResolveConflict(p, h) ==
    LET r == ResolveConflict(index, p, h)
    IN  /\ res = Idle
        /\ index' = r.index
        /\ res' = [op |-> "ResolveConflict", path |-> p, hash |-> h,
                   err |-> r.err, before |-> index]
        /\ UNCHANGED <<store, refs, head, merges, gitDir, ctx, walk, pool>>

\* Index.IsConflicted(path) and Index.GetConflicts()
DoIsConflicted(p) ==
    /\ res = Idle
    /\ res' = [op |-> "IsConflicted", path |-> p, err |-> FALSE,
               val |-> IsConflicted(index, p),
               listed |-> p \in DOMAIN GetConflicts(index)]
    /\ UNCHANGED <<store, refs, head, merges, index, gitDir, ctx, walk, pool>>

IndexNext ==
    \/ \E p \in Range(IndexPaths), h \in Blobs : DoIndexAdd(p, h)
    \/ \E p \in Range(IndexPaths) : DoIndexRemove(p)
    \/ \E p \in Range(IndexPaths), b, o, t \in IndexHashes : DoAddConflict(p, b, o, t)
    \/ \E p \in Range(IndexPaths) : DoRemoveConflict(p)
    \/ \E p \in Range(IndexPaths), h \in Blobs : DoResolveConflict(p, h)
    \/ \E p \in Range(IndexPaths) : DoIsConflicted(p)
    \/ Return

IndexSpec == Init /\ [][IndexNext]_vars

\* The stages at which idx has an entry of path p.
StagesOf(idx, p) == {idx[i].stage : i \in {j \in DOMAIN idx : idx[j].path = p}}

\* C14: after any sequence of index mutations a path is reported as
\* conflicted by IsConflicted and by GetConflicts if and only if it has an
\* entry at stage 1, 2 or 3 and no stage-0 entry.
C14_ConflictedIffStages ==
    res.op = "IsConflicted" =>
        LET conflicted == /\ StagesOf(index, res.path) \cap 1..3 # {}
                          /\ 0 \notin StagesOf(index, res.path)
        IN  (res.val <=> conflicted) /\ (res.listed <=> conflicted)

\* C15: after every index mutation (AddConflict, RemoveConflict,
\* ResolveConflict) the entry list is strictly sorted by (path, stage): no
\* two entries share path and stage.
C15_IndexStrictlySorted ==
    \A i \in 1..(Len(index) - 1) : EntryLess(index[i], index[i + 1])

\* C15 happens: AddConflict replaced the conflict of a path that sorts
\* before another path with entries.
C15_Witness ==
    /\ res.op = "AddConflict"
    /\ Len(index) >= 4
    /\ StagesOf(index, "f") \cap 1..3 # {}
    /\ StagesOf(index, "g") # {}
    /\ index[1].path = res.path

C12_ConflictStagesInIndex ==
    (res.op = "Merge" /\ ~res.err /\ res.conflicts # {} /\ res.base # ZeroHash) =>
        \A p \in res.conflicts :
            LET side(n) == IF n = 1 THEN store[res.base].tree
                           ELSE IF n = 2 THEN store[res.our].tree
                           ELSE store[res.theirs[1]].tree
            IN  /\ StagesOf(index, p) = {n \in 1..3 : p \in DOMAIN side(n)}
                /\ \A n \in StagesOf(index, p) : StageHash(index, p, n) = side(n)[p]

\* ------------------------------------------------------- conflict markers
\* File content: its lines, and whether the last one ends in a newline
\* (the empty content has no line and no newline).
FileLines == {"a", "B1", "B2"}
FileContents ==
    {c \in [lines : UNION {[1..n -> FileLines] : n \in 0..MaxLines}, nl : BOOLEAN] :
        c.lines = <<>> => ~c.nl}
NoContent == [lines |-> <<>>, nl |-> FALSE]
BaseContents == {NoContent, [lines |-> <<"a", "a", "a">>, nl |-> TRUE]}
OursLabels == {"ours", "HEAD"}
TheirsLabels == {"theirs"}

\* ConflictMarkerStart + " " + label, ConflictMarkerEnd + " " + label
StartMarker(label) == IF label = "ours" THEN "<<<<<<< ours" ELSE "<<<<<<< HEAD"
EndMarker(label) == ">>>>>>> theirs"

\* The lines a content contributes once a newline is appended where its
\* last byte is not one: the empty content becomes one empty line.
Terminated(c) == IF c.lines = <<>> THEN <<"">> ELSE c.lines

\* CreateConflictMarkers
CreateConflictMarkers(base, ours, theirs, oursLabel, theirsLabel, diff3Style) ==
    [lines |-> <<StartMarker(oursLabel)>> \o Terminated(ours)
               \o (IF diff3Style /\ base # NoContent
                   THEN <<"||||||| base">> \o Terminated(base) ELSE <<>>)
               \o <<"=======">> \o Terminated(theirs)
               \o <<EndMarker(theirsLabel)>>,
     nl |-> TRUE]

\* WriteConflictedFile: what it writes to w.
WriteConflictedFile(base, ours, theirs, oursLabel, theirsLabel, diff3Style) ==
    IF ours = theirs THEN ours
    ELSE CreateConflictMarkers(base, ours, theirs, oursLabel, theirsLabel, diff3Style)

\* splitLines: bytes.Split on "\n" (a final newline leaves an empty piece).
splitLines(c) ==
    IF c.nl THEN c.lines \o <<"">> ELSE Terminated(c)

\* LineBasedMerge: the merged content (NoContent for nil) and the conflict
\* regions.
LineBasedMerge(base, ours, theirs) ==
    IF ours = theirs THEN [merged |-> ours, regions |-> <<>>]
    ELSE [merged |-> NoContent,
          regions |-> <<[BaseStart |-> 0, BaseEnd |-> Len(splitLines(base)),
                         OurStart |-> 0, OurEnd |-> Len(splitLines(ours)),
                         TheirStart |-> 0, TheirEnd |-> Len(splitLines(theirs))]>>]

\* WriteConflictedFile(w, base, ours, theirs, oursLabel, theirsLabel, diff3Style)
DoWriteConflictedFile(base, ours, theirs, oursLabel, theirsLabel, diff3Style) ==
    /\ res = Idle
    /\ res' = [op |-> "WriteConflictedFile", base |-> base, ours |-> ours,
               theirs |-> theirs, oursLabel |-> oursLabel,
               theirsLabel |-> theirsLabel, diff3Style |-> diff3Style,
               written |-> WriteConflictedFile(base, ours, theirs, oursLabel,
                                               theirsLabel, diff3Style),
               regions |-> LineBasedMerge(base, ours, theirs).regions]
    /\ UNCHANGED <<store, refs, head, merges, index, gitDir, ctx, walk, pool>>

MarkerNext ==
    \/ /\ res = Idle
       /\ \E base \in BaseContents, ours, theirs \in FileContents,
             oursLabel \in OursLabels, theirsLabel \in TheirsLabels,
             diff3Style \in BOOLEAN :
             DoWriteConflictedFile(base, ours, theirs, oursLabel, theirsLabel, diff3Style)
    \/ Return

MarkerSpec == Init /\ [][MarkerNext]_vars

\* C13: for a content conflict in which ours and theirs change the same
\* line and share unchanged lines before and after it, the file written
\* brackets only the differing lines with the <<<<<<< / ======= / >>>>>>>
\* markers and keeps each common context line once, outside the markers.
C13_MarkersAroundChangedLines ==
    res.op = "WriteConflictedFile" =>
        \A i \in 2..(Len(res.ours.lines) - 1) :
            LET o == res.ours.lines
                t == res.theirs.lines
                b == res.base.lines
                w == res.written.lines
                pre == SubSeq(o, 1, i - 1)
                post == SubSeq(o, i + 1, Len(o))
                start == StartMarker(res.oursLabel)
                end == EndMarker(res.theirsLabel)
            IN  (/\ res.ours.nl /\ res.theirs.nl
                 /\ Len(t) = Len(o) /\ Len(b) = Len(o)
                 /\ o[i] # t[i] /\ o[i] # b[i] /\ t[i] # b[i]
                 /\ \A j \in DOMAIN o : j # i => o[j] = t[j] /\ o[j] = b[j]) =>
                    /\ Len(w) >= Len(o) + 4
                    /\ SubSeq(w, 1, i + 1) = pre \o <<start, o[i]>>
                    /\ SubSeq(w, Len(w) - Len(post) - 2, Len(w)) =
                           <<"=======", t[i], end>> \o post
                    /\ ~res.diff3Style => Len(w) = Len(o) + 4

\* ------------------------------------------------------- merge state files
\* C17: in every state reachable through merge, merge --abort and
\* merge --continue, MERGE_HEAD, MERGE_MSG, ORIG_HEAD and MERGE_MODE are
\* all present when a merge is in progress (a merge has just stopped on
\* conflicts) and all absent when none is (nothing was merged yet, or the
\* merge was just completed, aborted or continued).
C17_MergeStateFiles ==
    /\ (res.op = "Merge" /\ ~res.err /\ res.conflicts # {}) =>
            MergeStateFiles \subseteq DOMAIN gitDir
    /\ (\/ merges = 0 /\ res = Idle
        \/ res.op = "Merge" /\ ~res.err /\ res.conflicts = {}
        \/ res.op \in {"AbortMerge", "ContinueMerge"} /\ ~res.err) =>
            DOMAIN gitDir \cap MergeStateFiles = {}

\* ---------------------------------------------------------- missing objects
\* Stores that have lost objects: n commits, each naming up to two parents
\* among the earlier commits and the digest n + 1, which the store does not
\* hold.
WalkParents(S) == UNION {[1..k -> S] : k \in 0..2}

WalkStores ==
    UNION {{st \in [1..n -> [parents : WalkParents(1..(n + 1)),
                             tree : {[f \in CommitPaths |-> 1]},
                             msg : {<<"user", 0>>}]] :
               \A i \in 1..n : \A j \in DOMAIN st[i].parents :
                   st[i].parents[j] < i \/ st[i].parents[j] = n + 1}
           : n \in 1..MaxWalk}

WalkInit ==
    /\ store \in WalkStores
    /\ refs = [b \in Branches |-> Len(store)]
    /\ head = [branch |-> "master", sha |-> ZeroHash]
    /\ merges = 0
    /\ index = TreeIndex(store[Len(store)].tree)
    /\ gitDir = <<>>
    /\ ctx = FALSE
    /\ walk = NoWalk
    /\ pool = NoPool
    /\ res = Idle

WalkNext ==
    \/ \E a, b \in Digests : DoFindMergeBase(a, b)
    \/ \E a, b \in Digests : DoFindMergeBases(a, b)
    \/ \E a, b \in Digests : DoIsAncestor(a, b)
    \/ \E a, b \in Digests : DoCanFastForward(a, b)
    \/ Return

WalkSpec == WalkInit /\ [][WalkNext]_vars

\* The walk from c dereferences a digest the store does not hold: a commit
\* of the closure of c names a parent that is not stored.
ReachesMissing(st, c) ==
    \E x \in AncestorClosure(st, c) :
        \E i \in DOMAIN st[x].parents : ~Stored(st, st[x].parents[i])

\* C18: when the ancestor traversal of a merge-base query or an ancestry
\* test reaches a parent digest that the object store does not hold, the
\* operation fails (MissingObject) instead of returning a result computed
\* from the partial closure.
C18_MissingParentFails ==
    /\ (res.op \in {"FindMergeBase", "FindMergeBases"}
            /\ Stored(store, res.a) /\ Stored(store, res.b)
            /\ (ReachesMissing(store, res.a) \/ ReachesMissing(store, res.b)))
        => res.err
    /\ (res.op = "IsAncestor" /\ Stored(store, res.b)
            /\ ReachesMissing(store, res.b))
        => res.err
    /\ (res.op = "CanFastForward" /\ res.a # res.b /\ Stored(store, res.b)
            /\ ReachesMissing(store, res.b))
        => res.err

\* ------------------------------------------------------------ cancellation
\* The traversals step by step, with the caller's signal firing between
\* their steps.  commitMgr.GetCommit is not part of the sources: under a
\* fired signal it may fail or succeed.  A frame keeps whether the signal
\* fired while the traversal was running (during) and whether an iteration
\* has begun since (fired).

\* The caller cancels the context.
Cancel ==
    /\ ~ctx
    /\ res = Idle
    /\ ctx' = TRUE
    /\ UNCHANGED <<store, refs, head, merges, index, gitDir, walk, res, pool>>

\* A comparison with the first parent only.
commitModifiesFileFirstParent(st, c, filePath) ==
    LET currentBlob == Entry(st[c].tree, filePath)
        ps == st[c].parents
    IN  IF Len(ps) = 0 THEN currentBlob # ZeroHash
        ELSE \/ ~Stored(st, ps[1])
             \/ Entry(st[ps[1]].tree, filePath) # currentBlob

\* commitModifiesFile, from its first look at the signal on: an error (the
\* commit is skipped) once the signal has fired.
commitModifiesFile(st, c, filePath) ==
    LET currentBlob == Entry(st[c].tree, filePath)
        ps == st[c].parents
    IN  IF Len(ps) = 0 THEN currentBlob # ZeroHash
        ELSE \E i \in DOMAIN ps :
                 \/ ~Stored(st, ps[i])
                 \/ Entry(st[ps[i]].tree, filePath) # currentBlob

\* FilterByFile(ctx, commits, filePath): up to the loop.
StartFilterByFile(commits, filePath) ==
    /\ res = Idle /\ walk = NoWalk
    /\ IF filePath = ""
       THEN /\ res' = [op |-> "FilterByFile", commits |-> commits,
                       filePath |-> filePath, filtered |-> commits,
                       cancelled |-> FALSE, fired |-> FALSE]
            /\ walk' = walk
       ELSE /\ walk' = [op |-> "FilterByFile", commits |-> commits,
                        filePath |-> filePath, i |-> 1, pc |-> "top",
                        filtered |-> <<>>, during |-> FALSE, fired |-> FALSE]
            /\ res' = res
    /\ UNCHANGED <<store, refs, head, merges, index, gitDir, ctx, pool>>

\* The top of an iteration of the loop of FilterByFile: the select on
\* ctx.Done(), or the end of the loop.
FilterTop ==
    /\ walk.op = "FilterByFile" /\ walk.pc = "top"
    /\ IF walk.i > Len(walk.commits)
       THEN /\ res' = [op |-> "FilterByFile", commits |-> walk.commits,
                       filePath |-> walk.filePath, filtered |-> walk.filtered,
                       cancelled |-> FALSE, fired |-> walk.fired]
            /\ walk' = NoWalk
       ELSE IF ctx
       THEN /\ res' = [op |-> "FilterByFile", commits |-> walk.commits,
                       filePath |-> walk.filePath, filtered |-> walk.filtered,
                       cancelled |-> TRUE, fired |-> walk.during]
            /\ walk' = NoWalk
       ELSE /\ walk' = [walk EXCEPT !.pc = "body"]
            /\ res' = res
    /\ UNCHANGED <<store, refs, head, merges, index, gitDir, ctx, pool>>

\* The rest of the iteration: commitModifiesFile and the append.
FilterBody ==
    /\ walk.op = "FilterByFile" /\ walk.pc = "body"
    /\ LET c == walk.commits[walk.i]
           keep == ~ctx /\ commitModifiesFile(store, c, walk.filePath)
       IN  walk' = [walk EXCEPT !.i = @ + 1, !.pc = "top",
                                !.filtered = IF keep THEN Append(@, c) ELSE @]
    /\ UNCHANGED <<store, refs, head, merges, index, gitDir, ctx, res, pool>>

\* IsAncestor(ctx, a, b): up to getAncestors.  The calls of collectAncestors
\* that are running are the frames of walk.stack: the commit of the call
\* and the parent its loop is at (0: the call has just been entered).
StartIsAncestor(a, b) ==
    /\ res = Idle /\ walk = NoWalk
    /\ \/ /\ ~Stored(store, b) \/ ctx
          /\ res' = [op |-> "IsAncestor", a |-> a, b |-> b, err |-> TRUE,
                     val |-> FALSE, cancelled |-> Stored(store, b), fired |-> FALSE]
          /\ walk' = walk
       \/ /\ Stored(store, b)
          /\ walk' = [op |-> "IsAncestor", a |-> a, b |-> b,
                      stack |-> <<[c |-> b, i |-> 0]>>, ancestors |-> {},
                      expanded |-> <<>>, during |-> FALSE, fired |-> FALSE]
          /\ res' = res
    /\ UNCHANGED <<store, refs, head, merges, index, gitDir, ctx, pool>>

\* collectAncestors without the visited check: every call marks its commit
\* and goes on to the parents.
CollectStepRevisit ==
    /\ walk.op = "IsAncestor" /\ walk.stack # <<>>
    /\ LET n == Len(walk.stack)
           f == walk.stack[n]
           ps == store[f.c].parents
           rest == SubSeq(walk.stack, 1, n - 1)
       IN  IF f.i = 0
           THEN walk' = [walk EXCEPT !.stack = Append(rest, [f EXCEPT !.i = 1]),
                                     !.ancestors = @ \cup {f.c},
                                     !.expanded = Append(@, f.c)]
           ELSE IF f.i > Len(ps)
           THEN walk' = [walk EXCEPT !.stack = rest]
           ELSE LET next == Append(rest, [f EXCEPT !.i = @ + 1])
                IN  \/ /\ Stored(store, ps[f.i])
                       /\ walk' = [walk EXCEPT
                                     !.stack = Append(next, [c |-> ps[f.i], i |-> 0]),
                                     !.fired = @ \/ walk.during]
                    \/ /\ ~Stored(store, ps[f.i]) \/ ctx
                       /\ walk' = [walk EXCEPT !.stack = next, !.fired = @ \/ walk.during]
    /\ UNCHANGED <<store, refs, head, merges, index, gitDir, ctx, res, pool>>

\* One step of collectAncestors: the entry of a call, or an iteration of
\* its loop over c.ParentSHAs.  Neither looks at the signal.  A call that
\* gets past the visited check marks its commit and goes on to the
\* parents: walk.expanded lists these commits in order.
CollectStep ==
    /\ walk.op = "IsAncestor" /\ walk.stack # <<>>
    /\ LET n == Len(walk.stack)
           f == walk.stack[n]
           ps == store[f.c].parents
           rest == SubSeq(walk.stack, 1, n - 1)
       IN  IF f.i = 0
           THEN IF f.c \in walk.ancestors
                THEN walk' = [walk EXCEPT !.stack = rest]
                ELSE walk' = [walk EXCEPT !.stack = Append(rest, [f EXCEPT !.i = 1]),
                                          !.ancestors = @ \cup {f.c},
                                          !.expanded = Append(@, f.c)]
           ELSE IF f.i > Len(ps)
           THEN walk' = [walk EXCEPT !.stack = rest]
           ELSE LET next == Append(rest, [f EXCEPT !.i = @ + 1])
                IN  \/ /\ Stored(store, ps[f.i])
                       /\ walk' = [walk EXCEPT
                                     !.stack = Append(next, [c |-> ps[f.i], i |-> 0]),
                                     !.fired = @ \/ walk.during]
                    \/ /\ ~Stored(store, ps[f.i]) \/ ctx
                       /\ walk' = [walk EXCEPT !.stack = next, !.fired = @ \/ walk.during]
    /\ UNCHANGED <<store, refs, head, merges, index, gitDir, ctx, res, pool>>

\* getAncestors has returned: IsAncestor looks the digest up.
CollectReturn ==
    /\ walk.op = "IsAncestor" /\ walk.stack = <<>>
    /\ res' = [op |-> "IsAncestor", a |-> walk.a, b |-> walk.b, err |-> FALSE,
               val |-> walk.a \in walk.ancestors, cancelled |-> FALSE,
               fired |-> walk.fired, expanded |-> walk.expanded]
    /\ walk' = NoWalk
    /\ UNCHANGED <<store, refs, head, merges, index, gitDir, ctx, pool>>

\* The caller cancels while a traversal is running.
CancelWalk ==
    /\ ~ctx
    /\ walk # NoWalk
    /\ ctx' = TRUE
    /\ walk' = [walk EXCEPT !.during = TRUE]
    /\ UNCHANGED <<store, refs, head, merges, index, gitDir, res, pool>>

\* Histories handed to FilterByFile: the commits from one of them down.
CommitLists == {[i \in 1..c |-> c + 1 - i] : c \in DOMAIN store}
FilePaths == {"", "f", "g"}

CancelNext ==
    \/ Cancel
    \/ CancelWalk
    \/ \E commits \in CommitLists, filePath \in FilePaths :
          StartFilterByFile(commits, filePath)
    \/ FilterTop
    \/ FilterBody
    \/ \E a, b \in Digests : StartIsAncestor(a, b)
    \/ CollectStep
    \/ CollectReturn
    \/ Return

CancelSpec == WalkInit /\ [][CancelNext]_vars

\* C19: when the caller's cancellation signal fires during a graph
\* traversal (ancestor collection, file-history filtering) and the
\* traversal begins another iteration, it observes the signal at the top
\* of that iteration and the operation returns a Cancelled error.
C19_CancelledAtNextIteration ==
    (res.op \in {"FilterByFile", "IsAncestor"} /\ res.fired) => res.cancelled

\* ------------------------------------------------------------------ revert
\* The tree of the stage-0 entries of an index (what a commit records).
IndexTree(idx) ==
    [p \in {idx[i].path : i \in {j \in DOMAIN idx : idx[j].stage = 0}} |->
        StageHash(idx, p, 0)]

\* Revert that takes the first parent of a commit with several.
RevertCheckFirstParent(st, sha) ==
    IF ~Stored(st, sha) THEN "MissingObject"
    ELSE IF Len(st[sha].parents) = 0 THEN "CannotRevertInitial"
    ELSE IF ~Stored(st, st[sha].parents[1]) THEN "MissingObject"
    ELSE ""

\* The checks of Manager.Revert ahead of applyInverseChanges: the error it
\* returns, "" when it goes on.
RevertCheck(st, sha) ==
    IF ~Stored(st, sha) THEN "MissingObject"
    ELSE IF Len(st[sha].parents) = 0 THEN "CannotRevertInitial"
    ELSE IF Len(st[sha].parents) > 1 THEN "CannotRevertMerge"
    ELSE IF ~Stored(st, st[sha].parents[1]) THEN "MissingObject"
    ELSE ""

\* A revert commit that has no parent.
createRevertCommitParentless(h, idx) ==
    [tree |-> IndexTree(idx), parents |-> <<>>,
     msg |-> <<"user", Cardinality(UserCommits) + 1>>]

\* commitManager.CreateCommit as Revert calls it: the commit of the index
\* on top of HEAD's commit.
createRevertCommit(h, idx) ==
    [tree |-> IndexTree(idx), parents |-> <<h>>,
     msg |-> <<"user", Cardinality(UserCommits) + 1>>]

\* revert <commit> [--no-commit]: Manager.Revert.  updateIndexToTree clears
\* the index and adds no blob; workdirMgr.UpdateToCommit then brings the
\* working directory, and the index with it or not, to the parent's tree.
\* The revert commit is made of the index on top of HEAD.
Revert(sha, noCommit) ==
    LET e == RevertCheck(store, sha)
        ptree == store[store[sha].parents[1]].tree
        h == CurrentCommit(refs, head)
        before == [store |-> store, refs |-> refs, head |-> head, index |-> index]
        result(err) == [op |-> "Revert", sha |-> sha, noCommit |-> noCommit,
                        err |-> err, before |-> before]
    IN  /\ res = Idle
        /\ IF ctx \/ e # "" \/ ptree = ZeroTree
           THEN /\ res' = result(IF ctx THEN "Cancelled"
                                 ELSE IF e # "" THEN e ELSE "MissingObject")
                /\ UNCHANGED <<store, refs, head, index, pool>>
           ELSE \E idx \in {<<>>, TreeIndex(ptree)} :
                   /\ index' = idx
                   /\ IF noCommit
                      THEN /\ res' = result("")
                           /\ UNCHANGED <<store, refs, head, pool>>
                      ELSE IF h = ZeroHash \/ IndexTree(idx) = store[h].tree
                      THEN /\ res' = result("NothingToCommit")
                           /\ UNCHANGED <<store, refs, head, pool>>
                      ELSE LET c == createRevertCommit(h, idx)
                               w == WriteObject(store, c)
                           IN  /\ Cardinality(UserCommits) < MaxUser
                               /\ store' = w.store
                               /\ IF head.branch # ""
                                  THEN refs' = [refs EXCEPT ![head.branch] = w.sha]
                                       /\ head' = head
                                  ELSE refs' = refs
                                       /\ head' = [head EXCEPT !.sha = w.sha]
                               /\ res' = result("")
        /\ UNCHANGED <<merges, gitDir, ctx, walk, pool>>

\* The repository under commit, checkout, merge and revert.
RevertNext ==
    \/ \E t \in CommitTrees : Commit(t)
    \/ \E c \in Digests : CheckoutDetached(c)
    \/ \E branches \in BranchLists, cfg \in QueryConfigs : Merge(branches, cfg)
    \/ \E sha \in Digests, noCommit \in BOOLEAN : Revert(sha, noCommit)
    \/ Return

RevertSpec == Init /\ [][RevertNext]_vars

\* C20: reverting an initial commit is rejected with CannotRevertInitial
\* and reverting a merge commit with CannotRevertMerge; in both cases no
\* commit has been created and HEAD and the index are what they were.
C20_RevertRejected ==
    (res.op = "Revert" /\ Stored(res.before.store, res.sha)
        /\ Len(res.before.store[res.sha].parents) # 1) =>
        /\ res.err = IF Len(res.before.store[res.sha].parents) = 0
                     THEN "CannotRevertInitial" ELSE "CannotRevertMerge"
        /\ store = res.before.store
        /\ refs = res.before.refs
        /\ head = res.before.head
        /\ index = res.before.index

\* A merge commit has been given to revert, with an index that is not the
\* tree of its first parent.
C20_Witness ==
    /\ res.op = "Revert"
    /\ Stored(store, res.sha)
    /\ Len(store[res.sha].parents) > 1
    /\ Stored(store, store[res.sha].parents[1])
    /\ index # <<>>
    /\ index # TreeIndex(store[store[res.sha].parents[1]].tree)

\* C28: a successful revert of a single-parent commit without --no-commit
\* adds exactly one commit, whose only parent is the previous HEAD commit,
\* and moves HEAD to it; with --no-commit it adds no commit and leaves HEAD
\* where it was.
C28_RevertCommitsOnHead ==
    (res.op = "Revert" /\ res.err = "") =>
        IF res.noCommit
        THEN /\ store = res.before.store
             /\ refs = res.before.refs
             /\ head = res.before.head
        ELSE /\ Len(store) = Len(res.before.store) + 1
             /\ SubSeq(store, 1, Len(res.before.store)) = res.before.store
             /\ store[Len(store)].parents =
                    <<CurrentCommit(res.before.refs, res.before.head)>>
             /\ CurrentCommit(refs, head) = Len(store)
             /\ head.branch = res.before.head.branch

\* A commit that is not HEAD's has been reverted, and the revert commit
\* made.
C28_Witness ==
    /\ res.op = "Revert" /\ res.err = "" /\ ~res.noCommit
    /\ res.sha # CurrentCommit(res.before.refs, res.before.head)
    /\ Len(store) > Len(res.before.store)

\* ------------------------------------------------------ fast-forward only
\* C21: in fast-forward-only mode, a merge of one commit of which HEAD's
\* commit is not an ancestor is rejected with an error, and no ref, no
\* index entry and no object has changed.
C21_FastForwardOnlyRejects ==
    (res.op = "Merge" /\ res.cfg.Mode = "ff-only" /\ Len(res.theirs) = 1
        /\ res.our \notin AncestorClosure(store, res.theirs[1])) =>
        /\ res.err
        /\ Len(store) = res.storeLen
        /\ refs = res.before.refs
        /\ head = res.before.head
        /\ index = res.before.index

\* A fast-forward-only merge of a commit that has diverged from HEAD's.
C21_Witness ==
    /\ res.op = "Merge" /\ res.cfg.Mode = "ff-only" /\ Len(res.theirs) = 1
    /\ res.our # ZeroHash
    /\ res.our \notin AncestorClosure(store, res.theirs[1])
    /\ res.theirs[1] \notin AncestorClosure(store, res.our)
    /\ res.err

\* ------------------------------------------------------------ file history
\* Histories of up to MaxWalk commits, each with up to two parents among
\* the earlier ones and any tree of `commit`.
FilterStores ==
    UNION {{st \in [1..n -> [parents : WalkParents(1..n), tree : CommitTrees,
                             msg : {<<"user", 0>>}]] :
               \A i \in 1..n : \A j \in DOMAIN st[i].parents : st[i].parents[j] < i}
           : n \in 1..MaxWalk}

FilterInit ==
    /\ store \in FilterStores
    /\ refs = [b \in Branches |-> Len(store)]
    /\ head = [branch |-> "master", sha |-> ZeroHash]
    /\ merges = 0
    /\ index = TreeIndex(store[Len(store)].tree)
    /\ gitDir = <<>>
    /\ ctx = FALSE
    /\ walk = NoWalk
    /\ pool = NoPool
    /\ res = Idle

\* Commit sequences handed to FilterByFile: the stored commits in any
\* order, each at most once.
FilterLists ==
    {l \in UNION {[1..k -> DOMAIN store] : k \in 1..Len(store)} :
        \A i, j \in DOMAIN l : i # j => l[i] # l[j]}

FilterNext ==
    \/ /\ res = Idle /\ walk = NoWalk
       /\ \E commits \in FilterLists, filePath \in FilePaths :
             StartFilterByFile(commits, filePath)
    \/ FilterTop
    \/ FilterBody
    \/ Return

FilterSpec == FilterInit /\ [][FilterNext]_vars

\* The blob digest of commit c at the path differs from the digest at the
\* path in a parent (absence being a digest of its own); a parentless
\* commit: it has the file.
TouchesFile(st, c, filePath) ==
    IF st[c].parents = <<>> THEN filePath \in DOMAIN st[c].tree
    ELSE \E i \in DOMAIN st[c].parents :
             Entry(st[st[c].parents[i]].tree, filePath) # Entry(st[c].tree, filePath)

ResetModes == {"soft", "mixed", "hard"}

\* Arguments of reset: HEAD (or none), a branch name, a commit SHA.
ResetArgs == {[name |-> "HEAD", sha |-> ZeroHash]} \cup BranchArgs

\* resolveCommitRef: HEAD, then a branch that exists, then a SHA whose
\* commit exists; ZeroHash stands for the error return (and for a HEAD
\* that has no commit, which GetCommit then rejects).
resolveCommitRef(st, rf, hd, a) ==
    IF a.name = "HEAD" THEN CurrentCommit(rf, hd)
    ELSE IF a.name # "" THEN rf[a.name]
    ELSE IF Stored(st, a.sha) THEN a.sha
    ELSE ZeroHash

\* A reference update that writes HEAD itself, detaching it.
resetRefDetaching(rf, hd, targetSHA) ==
    [refs |-> rf, head |-> [branch |-> "", sha |-> targetSHA]]

\* The reference update of performReset: the current branch, or HEAD
\* itself when detached.
resetRef(rf, hd, targetSHA) ==
    IF CurrentBranch(hd) # ""
    THEN [refs |-> [rf EXCEPT ![CurrentBranch(hd)] = targetSHA], head |-> hd]
    ELSE [refs |-> rf, head |-> [hd EXCEPT !.sha = targetSHA]]

\* resetIndex: the index is cleared; rebuilding it from the tree is a TODO.
resetIndex(idx, t) == <<>>

\* reset [--soft | --mixed | --hard] [<commit>]: performReset.  The
\* working-directory update of a hard reset comes last and may fail; it
\* does fail when the target's tree cannot be read.  When it succeeds it
\* leaves the index cleared or brings it to the target's tree.
Reset(a, mode) ==
    LET targetSHA == resolveCommitRef(store, refs, head, a)
        before == [refs |-> refs, head |-> head, index |-> index]
        result(err) == [op |-> "Reset", a |-> a, mode |-> mode, err |-> err,
                        targetSHA |-> targetSHA, before |-> before]
    IN  /\ res = Idle
        /\ IF ~Stored(store, targetSHA)
           THEN /\ res' = result(TRUE)
                /\ UNCHANGED <<refs, head, index, pool>>
           ELSE LET u == resetRef(refs, head, targetSHA)
                    t == store[targetSHA].tree
                IN  /\ refs' = u.refs
                    /\ head' = u.head
                    /\ IF mode = "soft"
                       THEN index' = index /\ res' = result(FALSE)
                       ELSE IF mode = "mixed"
                       THEN index' = resetIndex(index, t) /\ res' = result(FALSE)
                       ELSE \/ /\ index' = resetIndex(index, t)
                               /\ res' = result(TRUE)
                            \/ /\ t # ZeroTree
                               /\ index' \in {resetIndex(index, t), TreeIndex(t)}
                               /\ res' = result(FALSE)
        /\ UNCHANGED <<store, merges, gitDir, ctx, walk, pool>>

\* The repository under commit, checkout, merge (of the default
\* configuration) and reset.
ResetNext ==
    \/ \E t \in CommitTrees : Commit(t)
    \/ \E b \in Branches : Checkout(b)
    \/ \E c \in Digests : CheckoutDetached(c)
    \/ \E branches \in BranchLists : Merge(branches, DefaultConfig)
    \/ \E a \in ResetArgs, mode \in ResetModes : Reset(a, mode)
    \/ Return

ResetSpec == Init /\ [][ResetNext]_vars

\* C23: after reset --mixed to commit T, the index contains exactly the
\* file entries of T's tree.
C23_MixedResetIndex ==
    (res.op = "Reset" /\ res.mode = "mixed" /\ ~res.err) =>
        index = TreeIndex(store[res.targetSHA].tree)

\* C26: a soft, mixed or hard reset to an existing commit T, with HEAD on
\* a branch, makes that branch resolve to T while HEAD stays attached to
\* it; a reset to HEAD leaves the branch resolving to the commit it
\* resolved to before.
C26_ResetMovesBranch ==
    (res.op = "Reset" /\ Stored(store, res.targetSHA)
        /\ CurrentBranch(res.before.head) # "") =>
        /\ head = res.before.head
        /\ refs[CurrentBranch(head)] = res.targetSHA
        /\ CurrentCommit(refs, head) = res.targetSHA
        /\ res.a.name = "HEAD" =>
               refs[CurrentBranch(head)] = res.before.refs[CurrentBranch(head)]

\* A reset on a branch to a commit other than the one the branch was at.
C26_Witness ==
    /\ res.op = "Reset" /\ ~res.err
    /\ CurrentBranch(res.before.head) # ""
    /\ Stored(store, res.targetSHA)
    /\ res.targetSHA # res.before.refs[CurrentBranch(res.before.head)]

\* C27: whenever a merge or a reset returns an error, the current branch
\* ref, HEAD and the index are the same as before the call.
C27_ErrorLeavesStateUnchanged ==
    (res.op \in {"Merge", "Reset"} /\ res.err) =>
        /\ refs = res.before.refs
        /\ head = res.before.head
        /\ index = res.before.index

\* ------------------------------------------------------ conflict resolution
ResolutionStrategies == {"ours", "theirs", "union", "manual"}

\* AdvancedConflictResolver.getObjectContent: the empty content for the
\* zero hash; reading an object is a TODO that returns an error.
getObjectContent(hash) ==
    IF hash = ZeroHash THEN [err |-> FALSE, content |-> NoContent]
    ELSE [err |-> TRUE, content |-> NoContent]

\* AdvancedConflictResolver.storeContent: a TODO that returns an error.
storeContent(content) == [err |-> TRUE, hash |-> ZeroHash]

\* AdvancedConflictResolver.resolveUnion
resolveUnion(conflict) ==
    LET o == getObjectContent(conflict.Ours)
        t == getObjectContent(conflict.Theirs)
    IN  IF o.err \/ t.err THEN [err |-> TRUE, content |-> NoContent]
        ELSE [err |-> FALSE,
              content |-> [lines |-> Terminated(o.content) \o t.content.lines,
                           nl |-> IF t.content.lines = <<>> THEN TRUE
                                  ELSE t.content.nl]]

\* AdvancedConflictResolver.ResolveConflict: the error, the resolved hash
\* and content, and the index it leaves.
AdvancedResolveConflict(idx, p, strategy) ==
    LET fail == [err |-> TRUE, hash |-> ZeroHash, content |-> NoContent, index |-> idx]
    IN  IF p \notin DOMAIN GetConflicts(idx) THEN fail
        ELSE LET conflict == GetConflicts(idx)[p]
                 r == IF strategy = "ours"
                      THEN getObjectContent(conflict.Ours) @@ [hash |-> conflict.Ours]
                      ELSE IF strategy = "theirs"
                      THEN getObjectContent(conflict.Theirs) @@ [hash |-> conflict.Theirs]
                      ELSE IF strategy = "union"
                      THEN LET u == resolveUnion(conflict)
                               w == storeContent(u.content)
                           IN  [err |-> u.err \/ w.err, content |-> u.content,
                                hash |-> w.hash]
                      ELSE [err |-> TRUE, content |-> NoContent, hash |-> ZeroHash]
             IN  IF r.err THEN fail
                 ELSE LET m == ResolveConflict(idx, p, r.hash)
                      IN  [err |-> m.err, hash |-> r.hash, content |-> r.content,
                           index |-> m.index]

\* AdvancedConflictResolver.ResolveConflict(path, strategy)
DoAdvancedResolveConflict(p, strategy) ==
    LET r == AdvancedResolveConflict(index, p, strategy)
    IN  /\ res = Idle
        /\ index' = r.index
        /\ res' = [op |-> "AdvancedResolveConflict", path |-> p,
                   strategy |-> strategy, err |-> r.err, hash |-> r.hash,
                   content |-> r.content, before |-> index]
        /\ UNCHANGED <<store, refs, head, merges, gitDir, ctx, walk, pool>>

ResolveNext ==
    \/ \E p \in Range(IndexPaths), h \in Blobs : DoIndexAdd(p, h)
    \/ \E p \in Range(IndexPaths), b, o, t \in IndexHashes : DoAddConflict(p, b, o, t)
    \/ \E p \in Range(IndexPaths), strategy \in ResolutionStrategies :
          DoAdvancedResolveConflict(p, strategy)
    \/ Return

ResolveSpec == Init /\ [][ResolveNext]_vars

\* The content of the blobs an index entry may name: one line each.
BlobContent(h) ==
    IF h = ZeroHash THEN NoContent
    ELSE [lines |-> <<IF h = 1 THEN "a" ELSE IF h = 2 THEN "B1" ELSE "B2">>,
          nl |-> TRUE]

\* C24: resolving a conflicted path with the union strategy stores a new
\* blob whose content is ours' content followed by theirs' content,
\* separated by a newline, and installs that blob's digest at stage 0 for
\* the path, with stages 1-3 removed.
C24_UnionResolution ==
    (res.op = "AdvancedResolveConflict" /\ res.strategy = "union"
        /\ res.path \in DOMAIN GetConflicts(res.before)) =>
        LET c == GetConflicts(res.before)[res.path]
        IN  /\ ~res.err
            /\ res.content = [lines |-> BlobContent(c.Ours).lines
                                        \o BlobContent(c.Theirs).lines,
                              nl |-> TRUE]
            /\ res.hash # ZeroHash
            /\ StagesOf(index, res.path) = {0}
            /\ StageHash(index, res.path, 0) = res.hash

\* ------------------------------------------------------------- worker pool
MaxTasks == 3
WorkerCount == 2

Workers == 1..WorkerCount

\* The tasks of one operation: for each, whether its function returns an
\* error.
TaskLists == UNION {[1..n -> BOOLEAN] : n \in 1..MaxTasks}

\* A task's function returned an error: it replaces the error kept so far.
keepLastError(p, i) ==
    [p EXCEPT !.err = i, !.cancelled = TRUE, !.errs = Append(@, i)]

\* A task's function returned an error: the first error is kept and the
\* operation's token is cancelled.
keepFirstError(p, i) ==
    [p EXCEPT !.err = IF @ = 0 THEN i ELSE @, !.cancelled = TRUE,
              !.errs = Append(@, i)]

\* WorkerPool.Process(ctx, tasks, processFn): the workers start idle.
StartProcess(tasks) ==
    /\ res = Idle /\ pool = NoPool
    /\ pool' = [op |-> "Process", tasks |-> tasks, next |-> 1,
                running |-> [w \in Workers |-> 0], stopped |-> {},
                done |-> {}, err |-> 0, cancelled |-> FALSE, errs |-> <<>>,
                late |-> {}]
    /\ UNCHANGED <<store, refs, head, merges, index, gitDir, ctx, walk, res>>

\* An idle worker checks the token, then takes the next task in FIFO order;
\* it stops when the token is cancelled or no task is left.
WorkerTake(w) ==
    /\ pool # NoPool
    /\ w \notin pool.stopped /\ pool.running[w] = 0
    /\ IF pool.cancelled \/ pool.next > Len(pool.tasks)
       THEN pool' = [pool EXCEPT !.stopped = @ \cup {w}]
       ELSE pool' = [pool EXCEPT !.running[w] = pool.next, !.next = @ + 1,
                                 !.late = IF pool.errs # <<>>
                                          THEN @ \cup {pool.next} ELSE @]
    /\ UNCHANGED <<store, refs, head, merges, index, gitDir, ctx, walk, res>>

\* A worker's task returns.
WorkerFinish(w) ==
    /\ pool # NoPool
    /\ pool.running[w] # 0
    /\ LET i == pool.running[w]
           p == [pool EXCEPT !.running[w] = 0, !.done = @ \cup {i}]
       IN  pool' = IF pool.tasks[i] THEN keepFirstError(p, i) ELSE p
    /\ UNCHANGED <<store, refs, head, merges, index, gitDir, ctx, walk, res>>

\* Process returns once every worker has stopped.
ProcessReturn ==
    /\ pool # NoPool
    /\ pool.stopped = Workers
    /\ res' = [op |-> "Process", err |-> pool.err, errs |-> pool.errs,
               done |-> pool.done, late |-> pool.late,
               running |-> {w \in Workers : pool.running[w] # 0}]
    /\ pool' = NoPool
    /\ UNCHANGED <<store, refs, head, merges, index, gitDir, ctx, walk>>

PoolNext ==
    \/ \E tasks \in TaskLists : StartProcess(tasks)
    \/ \E w \in Workers : WorkerTake(w)
    \/ \E w \in Workers : WorkerFinish(w)
    \/ ProcessReturn
    \/ Return

PoolSpec == Init /\ [][PoolNext]_vars

\* C25: if a worker task of a pool operation returns an error, no worker
\* takes another task afterwards, and the operation returns the first error
\* that occurred, once every worker has stopped.
C25_FailFastFirstError ==
    /\ (pool # NoPool /\ pool.errs # <<>>) =>
           /\ pool.cancelled
           /\ pool.late = {}
           /\ pool.err = pool.errs[1]
    /\ (res.op = "Process" /\ res.errs # <<>>) =>
           /\ res.err = res.errs[1]
           /\ res.late = {}
           /\ res.running = {}

\* An operation in which two tasks failed has returned, with a task never
\* started.
C25_Witness ==
    /\ res.op = "Process"
    /\ Len(res.errs) = 2
    /\ res.errs[1] > res.errs[2]
    /\ res.done # 1..MaxTasks

\* ------------------------------------------------------------ revert range
RECURSIVE commitsInRange(_, _, _, _)

\* Manager.getCommitsInRange: the commits from endSHA back along first
\* parents to startSHA (exclusive), newest first, or the error.
commitsInRange(st, startSHA, currentSHA, result) ==
    IF ~Stored(st, currentSHA) THEN [err |-> "MissingObject", commits |-> <<>>]
    ELSE IF currentSHA = startSHA THEN [err |-> "", commits |-> result]
    ELSE IF Len(st[currentSHA].parents) = 0
    THEN [err |-> "StartNotFound", commits |-> <<>>]
    ELSE commitsInRange(st, startSHA, st[currentSHA].parents[1],
                        Append(result, currentSHA))

getCommitsInRange(st, startSHA, endSHA) ==
    commitsInRange(st, startSHA, endSHA, <<>>)

\* Manager.Revert on the repository r = [store, refs, head, index]: the
\* outcomes it may have, each the error and the repository it leaves.
RevertOutcomes(r, sha, noCommit) ==
    LET e == RevertCheck(r.store, sha)
        ptree == r.store[r.store[sha].parents[1]].tree
        h == CurrentCommit(r.refs, r.head)
        n == Cardinality({i \in DOMAIN r.store : r.store[i].msg[1] = "user"})
        outcome(idx) ==
            LET ri == [r EXCEPT !.index = idx]
                c == [tree |-> IndexTree(idx), parents |-> <<h>>,
                      msg |-> <<"user", n + 1>>]
                w == WriteObject(r.store, c)
            IN  IF noCommit THEN {[err |-> "", r |-> ri]}
                ELSE IF h = ZeroHash \/ IndexTree(idx) = r.store[h].tree
                THEN {[err |-> "NothingToCommit", r |-> ri]}
                ELSE IF n >= MaxUser THEN {}
                ELSE {[err |-> "",
                       r |-> [ri EXCEPT
                                !.store = w.store,
                                !.refs = IF r.head.branch # ""
                                         THEN [@ EXCEPT ![r.head.branch] = w.sha]
                                         ELSE @,
                                !.head = IF r.head.branch # "" THEN @
                                         ELSE [@ EXCEPT !.sha = w.sha]]]}
    IN  IF e # "" THEN {[err |-> e, r |-> r]}
        ELSE IF ptree = ZeroTree THEN {[err |-> "MissingObject", r |-> r]}
        ELSE UNION {outcome(idx) : idx \in {<<>>, TreeIndex(ptree)}}

RECURSIVE revertLoop(_, _, _, _)

\* The loop of RevertRange from commitsToRevert[i] down to the first: each
\* commit is reverted with NoCommit only when the option is set and it is
\* not the last one of the loop; the first error ends the loop.
revertLoop(r, commitsToRevert, i, noCommit) ==
    IF i < 1 THEN {[err |-> "", r |-> r]}
    ELSE UNION {IF o.err # "" THEN {o}
                ELSE revertLoop(o.r, commitsToRevert, i - 1, noCommit) :
                o \in RevertOutcomes(r, commitsToRevert[i], noCommit /\ i > 1)}

\* revert <start>..<end> [--no-commit]: Manager.RevertRange
RevertRange(startSHA, endSHA, noCommit) ==
    LET before == [store |-> store, refs |-> refs, head |-> head, index |-> index]
        g == getCommitsInRange(store, startSHA, endSHA)
        result(err, cs) == [op |-> "RevertRange", startSHA |-> startSHA,
                            endSHA |-> endSHA, noCommit |-> noCommit,
                            commits |-> cs, err |-> err, before |-> before]
    IN  /\ res = Idle
        /\ IF ctx \/ g.err # "" \/ g.commits = <<>>
           THEN /\ res' = result(IF ctx THEN "Cancelled"
                                 ELSE IF g.err # "" THEN g.err ELSE "EmptyRange",
                                 <<>>)
                /\ UNCHANGED <<store, refs, head, index>>
           ELSE \E o \in revertLoop(before, g.commits, Len(g.commits), noCommit) :
                   /\ store' = o.r.store
                   /\ refs' = o.r.refs
                   /\ head' = o.r.head
                   /\ index' = o.r.index
                   /\ res' = result(o.err, g.commits)
        /\ UNCHANGED <<merges, gitDir, ctx, walk, pool>>

\* The repository under commit, checkout and revert of a range.
RangeNext ==
    \/ \E t \in CommitTrees : Commit(t)
    \/ \E c \in Digests : CheckoutDetached(c)
    \/ \E b \in Branches : Checkout(b)
    \/ \E startSHA, endSHA \in Digests, noCommit \in BOOLEAN :
          RevertRange(startSHA, endSHA, noCommit)
    \/ Return

RangeSpec == Init /\ [][RangeNext]_vars

\* C29: RevertRange called with NoCommit set creates no commit for any
\* commit of the range, a range of one commit included, so that the object
\* store and HEAD are unchanged when it returns.
C29_RangeNoCommit ==
    (res.op = "RevertRange" /\ res.noCommit) =>
        /\ store = res.before.store
        /\ refs = res.before.refs
        /\ head = res.before.head

\* ------------------------------------------------------------ octopus tree
\* The lowest common ancestors of a and b.
LowestCommon(st, a, b) ==
    LET common == AncestorClosure(st, a) \cap AncestorClosure(st, b)
    IN  {m \in common : ~\E d \in common : d # m /\ m \in AncestorClosure(st, d)}

\* The file p is added by the i-th branch alone: its commit has p, while
\* HEAD's commit, the other branches' commits and the lowest common
\* ancestors of HEAD's commit and the branch have not.
AddedOnlyBy(st, our, theirs, i, p) ==
    /\ p \in DOMAIN st[theirs[i]].tree
    /\ p \notin DOMAIN st[our].tree
    /\ \A j \in DOMAIN theirs : j # i => p \notin DOMAIN st[theirs[j]].tree
    /\ \A m \in LowestCommon(st, our, theirs[i]) : p \notin DOMAIN st[m].tree

\* C30: the tree of an octopus merge commit is the result of merging every
\* given branch into HEAD: a file added only by the second or a later
\* branch is in that tree, with the branch's content.
C30_OctopusTreeHasLaterBranches ==
    (res.op = "Merge" /\ ~res.err /\ res.success /\ Len(res.theirs) >= 2
        /\ Stored(store, res.commitSHA)
        /\ store[res.commitSHA].msg[1] = "octopus") =>
        \A i \in 2..Len(res.theirs), p \in CommitPaths :
            AddedOnlyBy(store, res.our, res.theirs, i, p) =>
                /\ p \in DOMAIN store[res.commitSHA].tree
                /\ store[res.commitSHA].tree[p] = store[res.theirs[i]].tree[p]

\* ------------------------------------------------- resolution ours / theirs
\* Ours and theirs hold different entries for p, and both differ from the
\* entry of every lowest common ancestor.
BothChanged(st, our, their, p) ==
    /\ Entry(st[our].tree, p) # Entry(st[their].tree, p)
    /\ \A m \in LowestCommon(st, our, their) :
           Entry(st[m].tree, p) \notin {Entry(st[our].tree, p), Entry(st[their].tree, p)}

\* C31: with conflict resolution ours (respectively theirs), a merge of one
\* commit that meets nothing worse than conflicting paths is reported as
\* successful, and the tree of its merge commit holds ours' (respectively
\* theirs') entry for every conflicting path.
C31_OursTheirsResolveConflicts ==
    (res.op = "Merge" /\ ~res.err /\ Len(res.theirs) = 1
        /\ res.cfg.ConflictResolution \in {"ours", "theirs"}
        /\ res.cfg.Mode \in {"default", "no-ff"}
        /\ res.conflicts # {}
        /\ \A p \in res.conflicts : BothChanged(store, res.our, res.theirs[1], p)) =>
        /\ res.success
        /\ Stored(store, res.commitSHA)
        /\ LET side == IF res.cfg.ConflictResolution = "ours" THEN res.our
                       ELSE res.theirs[1]
           IN  \A p \in res.conflicts :
                   Entry(store[res.commitSHA].tree, p) = Entry(store[side].tree, p)

\* ------------------------------------------------------------ no-ff merges
\* C32: in no-fast-forward mode (recursive strategy), the merge of one
\* commit that descends from HEAD's commit creates a merge commit with
\* parents [HEAD, merged commit]; it never completes by moving the ref to
\* the merged commit.
C32_NoFastForwardCreatesCommit ==
    (res.op = "Merge" /\ res.cfg.Mode = "no-ff" /\ Len(res.theirs) = 1
        /\ res.cfg.Strategy = "recursive"
        /\ Stored(store, res.our) /\ res.our # res.theirs[1]
        /\ res.our \in AncestorClosure(store, res.theirs[1])) =>
        /\ ~res.err
        /\ ~res.ff
        /\ res.commitSHA > res.storeLen
        /\ Stored(store, res.commitSHA)
        /\ store[res.commitSHA].parents = <<res.our, res.theirs[1]>>
        /\ CurrentCommit(refs, head) # res.theirs[1]

\* ------------------------------------------------------ merge in progress
\* The message SaveState is given.
MergeMessages == {"Merge"}

\* MergeState.SaveState(ctx, mergeHead, mergeMsg)
DoSaveState(mergeHead, mergeMsg) ==
    /\ res = Idle
    /\ gitDir' = SaveState(gitDir, mergeHead, mergeMsg)
    /\ res' = [op |-> "SaveState", err |-> FALSE]
    /\ UNCHANGED <<store, refs, head, merges, index, ctx, walk, pool>>

\* MergeState.SaveMergeMode(mode)
DoSaveMergeMode(mode) ==
    /\ res = Idle
    /\ gitDir' = SaveMergeMode(gitDir, mode)
    /\ res' = [op |-> "SaveMergeMode", err |-> FALSE]
    /\ UNCHANGED <<store, refs, head, merges, index, ctx, walk, pool>>

\* A merge in progress, as the callers of MergeState leave it: the state
\* files saved, conflicts staged in the index and resolved, then the merge
\* aborted or continued.
StateNext ==
    \/ \E t \in CommitTrees : Commit(t)
    \/ \E c \in Digests : CheckoutDetached(c)
    \/ \E mergeHead \in DOMAIN store, mergeMsg \in MergeMessages :
          DoSaveState(mergeHead, mergeMsg)
    \/ \E mode \in Modes : DoSaveMergeMode(mode)
    \/ \E b, o, t \in IndexHashes : DoAddConflict("f", b, o, t)
    \/ \E h \in Blobs : DoResolveConflict("f", h)
    \/ AbortMerge
    \/ ContinueMerge
    \/ Return

StateSpec == Init /\ [][StateNext]_vars

\* C33: after a merge has reported conflicts that need resolution, a merge
\* is in progress: MERGE_HEAD holds the merged commit, so that a following
\* merge --continue or merge --abort is not rejected with "no merge in
\* progress".
C33_ConflictsLeaveMergeInProgress ==
    (res.op = "Merge" /\ ~res.err /\ ~res.success /\ res.conflicts # {}
        /\ Len(res.theirs) = 1) =>
        /\ InProgress(gitDir)
        /\ gitDir["MERGE_HEAD"] = res.theirs[1]

\* C34: merge --continue, with a merge in progress and no conflicted path
\* left in the index, creates a commit with parents [HEAD, MERGE_HEAD] and
\* the message of MERGE_MSG, moves the current branch to it and clears the
\* merge state.
C34_ContinueCreatesMergeCommit ==
    (res.op = "ContinueMerge" /\ InProgress(res.before.gitDir)
        /\ "MERGE_MSG" \in DOMAIN res.before.gitDir
        /\ CurrentCommit(res.before.refs, res.before.head) # ZeroHash
        /\ DOMAIN GetConflicts(res.before.index) = {}) =>
        /\ ~res.err
        /\ Len(store) = Len(res.before.store) + 1
        /\ store[Len(store)].parents =
              <<CurrentCommit(res.before.refs, res.before.head),
                res.before.gitDir["MERGE_HEAD"]>>
        /\ CurrentCommit(refs, head) = Len(store)
        /\ ~InProgress(gitDir)

\* C35: merge --abort, with a merge in progress, brings HEAD and the index
\* back to the commit recorded in ORIG_HEAD and leaves no merge in
\* progress.
C35_AbortRestoresOrigHead ==
    (res.op = "AbortMerge" /\ InProgress(res.before.gitDir)) =>
        /\ ~res.err
        /\ ~InProgress(gitDir)
        /\ "ORIG_HEAD" \in DOMAIN res.before.gitDir
        /\ CurrentCommit(refs, head) = res.before.gitDir["ORIG_HEAD"]
        /\ index = TreeIndex(store[CurrentCommit(refs, head)].tree)

\* ------------------------------------------------- conflicts and no commit
\* C36: a merge of one commit that ends with unresolved conflicts (paths
\* both sides changed differently, conflict resolution fail or manual, in
\* any mode) writes no commit to the object store.
C36_ConflictsWriteNoCommit ==
    (res.op = "Merge" /\ ~res.err /\ res.conflicts # {}
        /\ Len(res.theirs) = 1
        /\ \A p \in res.conflicts : BothChanged(store, res.our, res.theirs[1], p)
        /\ res.cfg.ConflictResolution \in {"fail", "manual"}) =>
        Len(store) = res.storeLen

\* ------------------------------------------------------- already up to date
\* C37: in default mode, the merge of one commit that is an ancestor of
\* HEAD's commit, or that commit itself, creates no commit and leaves every
\* ref and HEAD unchanged.
C37_AncestorMergeChangesNothing ==
    (res.op = "Merge" /\ res.cfg.Mode = "default" /\ Len(res.theirs) = 1
        /\ Stored(store, res.our)
        /\ res.theirs[1] \in AncestorClosure(store, res.our)) =>
        /\ Len(store) = res.storeLen
        /\ refs = res.before.refs
        /\ head = res.before.head

\* ---------------------------------------------------- parsing the markers
MaxMarkerLines == 4

\* The lines of a file by what ParseConflictMarkers makes of them: a line
\* that starts with one of the four markers, any other line, and a line
\* longer than the scanner's buffer (bufio.MaxScanTokenSize), which
\* scanner.Scan cannot deliver.
LineKinds == {"start", "base", "sep", "end", "text", "long"}

MarkerFiles == UNION {[1..n -> LineKinds] : n \in 0..MaxMarkerLines}

\* currentConflict == nil
NoConflict == [StartLine |-> -1]

\* The parser before the first line.
ParserStart ==
    [err |-> "", conflicts |-> <<>>, currentConflict |-> NoConflict,
     currentSection |-> ""]

\* A loop body that lets a start marker open a conflict inside an open one.
parseLineNesting(s, line, lineNum) ==
    LET cur == s.currentConflict
    IN  IF line = "start"
        THEN [s EXCEPT !.currentConflict =
                           [StartLine |-> lineNum - 1, EndLine |-> 0,
                            OursContent |-> <<>>, BaseContent |-> <<>>,
                            TheirsContent |-> <<>>],
                       !.currentSection = "ours"]
        ELSE IF line = "base"
        THEN IF cur = NoConflict THEN [s EXCEPT !.err = "base marker without start"]
             ELSE [s EXCEPT !.currentSection = "base"]
        ELSE IF line = "sep"
        THEN IF cur = NoConflict THEN [s EXCEPT !.err = "separator without start"]
             ELSE [s EXCEPT !.currentSection = "theirs"]
        ELSE IF line = "end"
        THEN IF cur = NoConflict THEN [s EXCEPT !.err = "end marker without start"]
             ELSE [s EXCEPT !.conflicts =
                                Append(@, [cur EXCEPT !.EndLine = lineNum - 1]),
                            !.currentConflict = NoConflict,
                            !.currentSection = ""]
        ELSE IF cur = NoConflict THEN s
        ELSE IF s.currentSection = "ours"
        THEN [s EXCEPT !.currentConflict.OursContent = Append(@, lineNum)]
        ELSE IF s.currentSection = "base"
        THEN [s EXCEPT !.currentConflict.BaseContent = Append(@, lineNum)]
        ELSE [s EXCEPT !.currentConflict.TheirsContent = Append(@, lineNum)]

\* The body of the scanning loop of ParseConflictMarkers for one line (a
\* line's content is recorded as its number).
parseLine(s, line, lineNum) ==
    LET cur == s.currentConflict
    IN  IF line = "start"
        THEN IF cur # NoConflict THEN [s EXCEPT !.err = "nested conflict markers"]
             ELSE [s EXCEPT !.currentConflict =
                                [StartLine |-> lineNum - 1, EndLine |-> 0,
                                 OursContent |-> <<>>, BaseContent |-> <<>>,
                                 TheirsContent |-> <<>>],
                            !.currentSection = "ours"]
        ELSE IF line = "base"
        THEN IF cur = NoConflict THEN [s EXCEPT !.err = "base marker without start"]
             ELSE [s EXCEPT !.currentSection = "base"]
        ELSE IF line = "sep"
        THEN IF cur = NoConflict THEN [s EXCEPT !.err = "separator without start"]
             ELSE [s EXCEPT !.currentSection = "theirs"]
        ELSE IF line = "end"
        THEN IF cur = NoConflict THEN [s EXCEPT !.err = "end marker without start"]
             ELSE [s EXCEPT !.conflicts =
                                Append(@, [cur EXCEPT !.EndLine = lineNum - 1]),
                            !.currentConflict = NoConflict,
                            !.currentSection = ""]
        ELSE IF cur = NoConflict THEN s
        ELSE IF s.currentSection = "ours"
        THEN [s EXCEPT !.currentConflict.OursContent = Append(@, lineNum)]
        ELSE IF s.currentSection = "base"
        THEN [s EXCEPT !.currentConflict.BaseContent = Append(@, lineNum)]
        ELSE [s EXCEPT !.currentConflict.TheirsContent = Append(@, lineNum)]

RECURSIVE scanLines(_, _, _)

\* for scanner.Scan() { ... } and what follows it: the loop ends at the
\* first error, at a line the scanner cannot deliver, or at the end of the
\* input.
scanLines(content, lineNum, s) ==
    IF s.err # "" THEN s
    ELSE IF lineNum > Len(content)
    THEN IF s.currentConflict # NoConflict
         THEN [s EXCEPT !.err = "unclosed conflict marker"] ELSE s
    ELSE IF content[lineNum] = "long"
    THEN [s EXCEPT !.err = "error scanning file"]
    ELSE scanLines(content, lineNum + 1, parseLine(s, content[lineNum], lineNum))

\* ParseConflictMarkers(content): (nil, err) or (conflicts, nil)
ParseConflictMarkers(content) ==
    LET s == scanLines(content, 1, ParserStart)
    IN  [err |-> s.err, conflicts |-> IF s.err # "" THEN <<>> ELSE s.conflicts]

DoParseConflictMarkers(content) ==
    LET r == ParseConflictMarkers(content)
    IN  /\ res = Idle
        /\ res' = [op |-> "ParseConflictMarkers", content |-> content,
                   err |-> r.err, conflicts |-> r.conflicts]
        /\ UNCHANGED <<store, refs, head, merges, index, gitDir, ctx, walk, pool>>

ParseNext ==
    \/ /\ res = Idle
       /\ \E content \in MarkerFiles : DoParseConflictMarkers(content)
    \/ Return

ParseSpec == Init /\ [][ParseNext]_vars

\* A conflict is open before line i: a start marker precedes it with no
\* end marker in between.
OpenAt(content, i) ==
    \E j \in 1..(i - 1) :
        /\ content[j] = "start"
        /\ \A k \in (j + 1)..(i - 1) : content[k] # "end"

\* The three errors of the statement.
MarkerError(content) ==
    \/ \E i \in DOMAIN content :
          \/ content[i] = "start" /\ OpenAt(content, i)
          \/ content[i] \in {"base", "sep", "end"} /\ ~OpenAt(content, i)
    \/ OpenAt(content, Len(content) + 1)

\* The positions of the lines of one kind, in order.
LinesOf(content, kind) ==
    LET P == {i \in DOMAIN content : content[i] = kind}
        nth[k \in 0..Cardinality(P)] ==
            IF k = 0 THEN 0 ELSE CHOOSE i \in P : i > nth[k - 1] /\
                                     \A j \in P : j > nth[k - 1] => i <= j
    IN  [k \in 1..Cardinality(P) |-> nth[k]]

\* The conflicts are those of the file, in order of appearance.
InOrderOfAppearance(content, conflicts) ==
    LET starts == LinesOf(content, "start")
        ends == LinesOf(content, "end")
    IN  /\ Len(conflicts) = Len(starts)
        /\ Len(conflicts) = Len(ends)
        /\ \A k \in DOMAIN conflicts :
              /\ conflicts[k].StartLine = starts[k] - 1
              /\ conflicts[k].EndLine = ends[k] - 1

\* C38 as stated: ParseConflictMarkers returns an error when a start marker
\* appears inside an open conflict, when a base, separator or end marker
\* appears with no open conflict, or when the input ends with a conflict
\* open; for every other input it returns the conflicts in order of
\* appearance with no error.
C38_ParseErrorsAsStated ==
    res.op = "ParseConflictMarkers" =>
        IF MarkerError(res.content) THEN res.err # ""
        ELSE res.err = "" /\ InOrderOfAppearance(res.content, res.conflicts)

\* C38, amended: the same, for every input whose lines the scanner can
\* deliver; an input with a line longer than the scanner's buffer always
\* returns an error.
C38_ParseErrors ==
    res.op = "ParseConflictMarkers" =>
        IF "long" \in Range(res.content) THEN res.err # ""
        ELSE IF MarkerError(res.content) THEN res.err # ""
        ELSE res.err = "" /\ InOrderOfAppearance(res.content, res.conflicts)

\* A file with two conflicts has been parsed.
C38_Witness ==
    /\ res.op = "ParseConflictMarkers"
    /\ res.err = ""
    /\ Len(res.conflicts) = 2

\* ---------------------------------------------------------------------
\* Commit graph: lane allocation (pkg/graph/graph_builder.go)
\* ---------------------------------------------------------------------

\* Largest number of commits handed to Build.
MaxGraph == 4

\* lanes[i] = "" : lane i is free. Commit hashes are the positive numbers.
FreeLane == 0

\* Parent lists of the commit at position i of a history of n commits:
\* none, one or two distinct parents, each a later commit of the list or
\* the commit n + 1, which is not part of the list.
GraphParents(i, n) ==
    {<<>>} \cup {<<p>> : p \in (i + 1)..(n + 1)}
           \cup {<<p, q>> : <<p, q>> \in
                    {pq \in ((i + 1)..(n + 1)) \X ((i + 1)..(n + 1)) : pq[1] # pq[2]}}

\* The commit lists handed to Build, newest first: the commit at position
\* i has hash i.
GraphHistories ==
    UNION {{[i \in 1..n |-> [hash |-> i, parents |-> ps[i]]] :
                ps \in {f \in [1..n -> UNION {GraphParents(i, n) : i \in 1..n}] :
                            \A i \in 1..n : f[i] \in GraphParents(i, n)}} :
           n \in 1..MaxGraph}

\* NewGraphBuilder: no node, no lane, no reservation.
NewGraphBuilder == [Nodes |-> <<>>, lanes |-> <<>>, reservations |-> <<>>]

\* lanes[lane] = occupant, lanes counted from 0 as in the source.
SetLane(lanes, lane, occupant) ==
    [k \in 1..Len(lanes) |-> IF k = lane + 1 THEN occupant ELSE lanes[k]]

\* The free or own lanes seen by the scan of allocateLane.
FreeOrOwn(lanes, commitHash) ==
    {i \in 0..(Len(lanes) - 1) : lanes[i + 1] \in {FreeLane, commitHash}}

Least(S) == CHOOSE x \in S : \A y \in S : x <= y

\* allocateLane: the reserved lane when there is one (the reservation is
\* consumed), otherwise the first lane that is free or already holds this
\* commit, otherwise a new lane. Returns the builder and the lane.
allocateLane(b, commitHash) ==
    LET exists   == commitHash \in DOMAIN b.reservations
        reserved == b.reservations[commitHash]
        resv     == [h \in DOMAIN b.reservations \ {commitHash} |-> b.reservations[h]]
        b1       == IF exists THEN [b EXCEPT !.reservations = resv] ELSE b
        free     == FreeOrOwn(b1.lanes, commitHash)
    IN  IF exists /\ reserved < Len(b1.lanes)
        THEN [b |-> [b1 EXCEPT !.lanes = SetLane(b1.lanes, reserved, commitHash)],
              lane |-> reserved]
        ELSE IF free # {}
        THEN [b |-> [b1 EXCEPT !.lanes = SetLane(b1.lanes, Least(free), commitHash)],
              lane |-> Least(free)]
        ELSE [b |-> [b1 EXCEPT !.lanes = Append(b1.lanes, commitHash)],
              lane |-> Len(b1.lanes)]

\* allocateLaneForParent: the lane already reserved for the parent,
\* otherwise the first free lane after lane 0 (which it does not occupy),
\* otherwise a new free lane.
allocateLaneForParent(b, commitHash) ==
    LET free == {i \in 1..(Len(b.lanes) - 1) : b.lanes[i + 1] = FreeLane}
    IN  IF commitHash \in DOMAIN b.reservations
        THEN [b |-> b, lane |-> b.reservations[commitHash]]
        ELSE IF free # {}
        THEN [b |-> b, lane |-> Least(free)]
        ELSE [b |-> [b EXCEPT !.lanes = Append(b.lanes, FreeLane)],
              lane |-> Len(b.lanes)]

\* reserveLane: reservations[commitHash] = lane, replacing any earlier
\* reservation, and lanes grown until the lane exists.
reserveLane(b, commitHash, lane) ==
    [b EXCEPT
        !.reservations = [h \in DOMAIN b.reservations \cup {commitHash} |->
                             IF h = commitHash THEN lane ELSE b.reservations[h]],
        !.lanes = [k \in 1..(IF Len(b.lanes) > lane THEN Len(b.lanes) ELSE lane + 1) |->
                      IF k <= Len(b.lanes) THEN b.lanes[k] ELSE FreeLane]]

\* freeLane: the lane is free again.
freeLane(b, lane) ==
    IF lane < Len(b.lanes)
    THEN [b EXCEPT !.lanes = SetLane(b.lanes, lane, FreeLane)]
    ELSE b

\* The loop over the parents in processCommit: the first parent continues
\* in the commit's lane, every other parent gets a lane of its own; each
\* is reserved. Returns the builder and the parent lanes so far.
RECURSIVE parentLoop(_, _, _, _, _)
parentLoop(b, parents, i, lane, parentLanes) ==
    IF i > Len(parents)
    THEN [b |-> b, ParentLanes |-> parentLanes]
    ELSE IF i = 1
    THEN parentLoop(reserveLane(b, parents[i], lane), parents, i + 1, lane,
                    Append(parentLanes, lane))
    ELSE LET a == allocateLaneForParent(b, parents[i])
         IN  parentLoop(reserveLane(a.b, parents[i], a.lane), parents, i + 1, lane,
                        Append(parentLanes, a.lane))

\* processCommit: place the commit, place its parents, then free the lane
\* of a commit without parents or hand the lane on to the first parent,
\* and add the node to the graph.
processCommit(b, c, idx) ==
    LET a    == allocateLane(b, c.hash)
        l    == parentLoop(a.b, c.parents, 1, a.lane, <<>>)
        b2   == IF Len(c.parents) = 0
                THEN freeLane(l.b, a.lane)
                ELSE [l.b EXCEPT !.lanes = SetLane(l.b.lanes, a.lane, c.parents[1])]
        node == [Commit |-> c, Lane |-> a.lane, ParentLanes |-> l.ParentLanes,
                 IsMerge |-> Len(c.parents) > 1, IsInitial |-> Len(c.parents) = 0,
                 Index |-> idx]
    IN  [b2 EXCEPT !.Nodes = Append(b2.Nodes, node)]

\* Build: processCommit for every commit in the order given.
RECURSIVE buildFrom(_, _, _)
buildFrom(b, commits, i) ==
    IF i > Len(commits) THEN b
    ELSE buildFrom(processCommit(b, commits[i], i - 1), commits, i + 1)

Build(commits) == buildFrom(NewGraphBuilder, commits, 1).Nodes

DoBuild(commits) ==
    /\ res = Idle
    /\ res' = [op |-> "Build", commits |-> commits, Nodes |-> Build(commits)]
    /\ UNCHANGED <<store, refs, head, merges, index, gitDir, ctx, walk, pool>>

GraphNext ==
    \/ /\ res = Idle
       /\ \E commits \in GraphHistories : DoBuild(commits)
    \/ Return

GraphSpec == Init /\ [][GraphNext]_vars

\* C39: in a built commit graph, for every node n and every parent p of n
\* that has a node of its own in the graph, the lane recorded for p in
\* n.ParentLanes is the lane in which p's node is placed.
C39_ParentLanesMatch ==
    res.op = "Build" =>
        \A n \in 1..Len(res.Nodes) : \A k \in 1..Len(res.Nodes[n].Commit.parents) :
            \A m \in 1..Len(res.Nodes) :
                res.Nodes[m].Commit.hash = res.Nodes[n].Commit.parents[k]
                    => res.Nodes[n].ParentLanes[k] = res.Nodes[m].Lane

\* ---------------------------------------------------------------------
\* Ancestor collection on commit DAGs (pkg/merge/mergebase.go)
\* ---------------------------------------------------------------------

\* Largest number of commits of a DAG handed to ancestor collection.
MaxDag == 4

\* The parents of a commit of a DAG: none, one or two distinct commits
\* among the earlier ones.
DagParents(S) ==
    {<<>>} \cup {<<p>> : p \in S}
           \cup {<<pq[1], pq[2]>> : pq \in {x \in S \X S : x[1] # x[2]}}

\* The finite commit DAGs: every object is present, a parent is an
\* earlier commit.
DagStores ==
    UNION {{st \in [1..n -> [parents : DagParents(1..(n - 1)),
                             tree : {[f \in CommitPaths |-> 1]},
                             msg : {<<"user", 0>>}]] :
               \A i \in 1..n : \A j \in DOMAIN st[i].parents :
                   st[i].parents[j] < i}
           : n \in 1..MaxDag}

DagInit ==
    /\ store \in DagStores
    /\ refs = [b \in Branches |-> Len(store)]
    /\ head = [branch |-> "master", sha |-> ZeroHash]
    /\ merges = 0
    /\ index = TreeIndex(store[Len(store)].tree)
    /\ gitDir = <<>>
    /\ ctx = FALSE
    /\ walk = NoWalk
    /\ pool = NoPool
    /\ res = Idle

\* IsAncestor, step by step, with a caller that may cancel meanwhile.
CollectNext ==
    \/ CancelWalk
    \/ \E a, b \in Digests : StartIsAncestor(a, b)
    \/ CollectStep
    \/ CollectReturn
    \/ Return

\* The traversal is sequential code: once started it keeps running until
\* it returns.
CollectSpec ==
    DagInit /\ [][CollectNext]_vars /\ WF_vars(CollectStep) /\ WF_vars(CollectReturn)

\* A sequence without repetitions.
NoRepeat(s) == \A i, j \in DOMAIN s : s[i] = s[j] => i = j

\* C40: on every finite commit DAG ancestor collection terminates (a
\* traversal that has started returns) and expands each commit at most
\* once, also a commit that is reachable along several parent paths.
C40_CollectTerminatesOnce ==
    /\ [](walk.op = "IsAncestor" => NoRepeat(walk.expanded))
    /\ []((res.op = "IsAncestor" /\ ~res.err) => NoRepeat(res.expanded))
    /\ (walk.op = "IsAncestor" ~> (res.op = "IsAncestor" /\ walk = NoWalk))

\* A traversal of a diamond has returned: two expanded commits with
\* different single parents meet in one expanded commit below them.
C40_Witness ==
    /\ res.op = "IsAncestor" /\ ~res.err
    /\ \E i, j, k, t \in DOMAIN res.expanded :
          /\ store[res.expanded[t]].parents = <<res.expanded[i], res.expanded[j]>>
          /\ store[res.expanded[i]].parents = <<res.expanded[k]>>
          /\ store[res.expanded[j]].parents = <<res.expanded[k]>>
          /\ i # j

====
